---------------------------- MODULE Spec2Model ----------------------------
(***************************************************************************)
(* Model of scripts/renpy_translate_pipeline.py: the placeholder codec,    *)
(* the response-count normalisation, the translation cache, the line job   *)
(* extractor and the batch orchestrator.                                   *)
(*                                                                         *)
(* A text is a sequence of one-character strings, so that trimming,        *)
(* escaping, masking and token detection are computed character by         *)
(* character, as the Python code does.                                     *)
(***************************************************************************)
EXTENDS Integers, Sequences, FiniteSets, TLC

VARIABLES
    \* the pure-function harnesses
    fpc,          \* position of the harness
    fin,          \* its input
    fout,         \* its output
    \* the translation cache
    entries,      \* TranslationCache.entries of the running process
    diskCache,    \* the entry map held by the cache file
    stored,       \* history: every <<provider, source, translation>> stored
    nsets,        \* number of set operations of the cache harness
    \* a run of main()
    cfg,          \* the command line (provider, overwrite, stop_on_quota,
                  \* ...) and the platform's os.linesep
    backend,      \* how the translation backend answers
    files,        \* the tl files on disk, each a sequence of lines
    run,          \* 1 for the first run of the program, 2 for the re-run
    pc,           \* position of main() and of the functions it calls
    fi,           \* index of the file main()'s loop is at
    lines,        \* apply_translations_to_file: lines
    jobs,         \* apply_translations_to_file: jobs
    results,      \* translate_unique_texts: results
    batches,      \* translate_unique_texts: batches
    bi,           \* index of the batch the loop over batches is at
    tm,           \* translate_unique_texts: translated_masked of the batch
    fbi,          \* index of the text the single-request fallback is at
    quota_hit,    \* translate_unique_texts: quota_hit
    stats,        \* FileStats of the file being processed
    total,        \* main(): total
    nreq,         \* history: translate_batch calls issued in this run
    quotaSeen,    \* history: a translate_batch call of this run raised
                  \* QuotaExceededError
    quotaLost,    \* history: the file whose batch raised it ended in an error
    resolved,     \* history: texts the backend resolved for the current file
    full1         \* history: the files the first run translated completely

pureVars == <<fpc, fin, fout>>

cacheVars == <<entries, diskCache, stored, nsets>>

runVars == <<cfg, backend, files, run, pc, fi, lines, jobs, results, batches,
             bi, tm, fbi, quota_hit, stats, total, nreq, quotaSeen, quotaLost,
             resolved, full1>>

vars == <<fpc, fin, fout, entries, diskCache, stored, nsets, cfg, backend,
          files, run, pc, fi, lines, jobs, results, batches, bi, tm, fbi,
          quota_hit, stats, total, nreq, quotaSeen, quotaLost, resolved, full1>>

\* Python's None where a text is expected: a tuple that is no text (its element
\* is not a single character).
None == <<"None">>

\* No warn_once key.
NoWarn == "none"

(***************************************************************************)
(* Text primitives (Python str methods used by the pipeline).              *)
(***************************************************************************)

\* str.strip() with no argument removes leading and trailing whitespace.
WS == {" ", "\t", "\n", "\r"}

Digit == {"0", "1", "2", "3", "4", "5", "6", "7", "8", "9"}

Letter == {"a", "b", "c", "d", "e", "f", "g", "h", "i", "j", "k", "l", "m",
           "n", "o", "p", "q", "r", "s", "t", "u", "v", "w", "x", "y", "z",
           "A", "B", "C", "D", "E", "F", "G", "H", "I", "J", "K", "L", "M",
           "N", "O", "P", "Q", "R", "S", "T", "U", "V", "W", "X", "Y", "Z"}

RECURSIVE LStrip(_)
LStrip(s) == IF s # <<>> /\ Head(s) \in WS THEN LStrip(Tail(s)) ELSE s

RECURSIVE RStrip(_)
RStrip(s) ==
    IF s # <<>> /\ s[Len(s)] \in WS THEN RStrip(SubSeq(s, 1, Len(s) - 1)) ELSE s

Strip(s) == RStrip(LStrip(s))

\* s[i:].startswith(pat)
StartsWith(s, i, pat) ==
    /\ i >= 1
    /\ i + Len(pat) - 1 <= Len(s)
    /\ SubSeq(s, i, i + Len(pat) - 1) = pat

EndsWith(s, pat) == StartsWith(s, Len(s) - Len(pat) + 1, pat)

\* str.replace(old, new): leftmost non-overlapping occurrences, left to right.
RECURSIVE ReplaceFrom(_, _, _, _)
ReplaceFrom(s, i, old, new) ==
    IF i > Len(s) THEN <<>>
    ELSE IF StartsWith(s, i, old)
         THEN new \o ReplaceFrom(s, i + Len(old), old, new)
         ELSE <<s[i]>> \o ReplaceFrom(s, i + 1, old, new)

Replace(s, old, new) == ReplaceFrom(s, 1, old, new)

\* The decimal digits of a natural number, as str(n) prints them.
RECURSIVE DecStr(_)
DecStr(n) ==
    LET d == <<"0", "1", "2", "3", "4", "5", "6", "7", "8", "9">>[(n % 10) + 1]
    IN  IF n < 10 THEN <<d>> ELSE DecStr(n \div 10) \o <<d>>

\* Length of the run of decimal digits of s that starts at position i.
RECURSIVE DigitRun(_, _)
DigitRun(s, i) ==
    IF i >= 1 /\ i <= Len(s) /\ s[i] \in Digit THEN 1 + DigitRun(s, i + 1) ELSE 0

\* Smallest j > i with s[j] in stop, or 0 when there is none.
RECURSIVE FirstOf(_, _, _)
FirstOf(s, i, stop) ==
    IF i + 1 > Len(s) THEN 0
    ELSE IF s[i + 1] \in stop THEN i + 1 ELSE FirstOf(s, i + 1, stop)

(***************************************************************************)
(* Synthetic placeholder tokens.                                           *)
(***************************************************************************)

TokenPrefix == <<"_", "_", "R", "N", "P", "H", "_">>
TokenSuffix == <<"_", "_">>

\* f"__RNPH_{len(mapping)}__"
Token(n) == TokenPrefix \o DecStr(n) \o TokenSuffix

\* TEMP_PLACEHOLDER_RE = __RNPH_\d+__ ; has_temp_placeholders is a search.
HasTempPlaceholders(s) ==
    \E i \in 1..Len(s) :
        /\ StartsWith(s, i, TokenPrefix)
        /\ LET d == DigitRun(s, i + Len(TokenPrefix))
           IN  /\ d >= 1
               /\ StartsWith(s, i + Len(TokenPrefix) + d, TokenSuffix)

(***************************************************************************)
(* Placeholder codec.                                                      *)
(***************************************************************************)

\* Length of the match of PLACEHOLDER_RE anchored at position i of s, or 0.
\* The alternatives are tried in the order of the pattern:
\*   \[[^\]\n]+\] | \{[^{}\n]+\} | %\([^)]+\)[a-zA-Z] | %[sdif] | \\[nrt]
PlaceholderMatchLen(s, i) ==
    LET c  == s[i]
        c2 == IF i + 1 <= Len(s) THEN s[i + 1] ELSE ""
        jb == FirstOf(s, i, {"]", "\n"})
        jc == FirstOf(s, i, {"{", "}", "\n"})
        jp == FirstOf(s, i + 1, {")"})
    IN  IF c = "[" /\ jb > i + 1 /\ s[jb] = "]" THEN jb - i + 1
        ELSE IF c = "{" /\ jc > i + 1 /\ s[jc] = "}" THEN jc - i + 1
        ELSE IF /\ c = "%" /\ c2 = "(" /\ jp > i + 2
                /\ jp + 1 <= Len(s) /\ s[jp + 1] \in Letter
             THEN jp + 1 - i + 1
        ELSE IF c = "%" /\ c2 \in {"s", "d", "i", "f"} THEN 2
        ELSE IF c = "\\" /\ c2 \in {"n", "r", "t"} THEN 2
        ELSE 0

\* PLACEHOLDER_RE.sub(repl, text): scan left to right; a match is replaced by
\* the token numbered by the current size of the mapping and the scan resumes
\* after the match.  The mapping keeps insertion order, as a dict does.
RECURSIVE MaskFrom(_, _, _)
MaskFrom(s, i, mapping) ==
    IF i > Len(s) THEN [text |-> <<>>, mapping |-> mapping]
    ELSE LET n == PlaceholderMatchLen(s, i)
         IN  IF n > 0
             THEN LET tok  == Token(Len(mapping))
                      rest == MaskFrom(s, i + n,
                                  Append(mapping, <<tok, SubSeq(s, i, i + n - 1)>>))
                  IN  [text |-> tok \o rest.text, mapping |-> rest.mapping]
             ELSE LET rest == MaskFrom(s, i + 1, mapping)
                  IN  [text |-> <<s[i]>> \o rest.text, mapping |-> rest.mapping]

MaskPlaceholders(text) == MaskFrom(text, 1, <<>>)

\* for token, original in mapping.items(): restored = restored.replace(...)
RECURSIVE RestoreFrom(_, _, _)
RestoreFrom(text, mapping, k) ==
    IF k > Len(mapping) THEN text
    ELSE RestoreFrom(Replace(text, mapping[k][1], mapping[k][2]), mapping, k + 1)

RestorePlaceholders(text, mapping) == RestoreFrom(text, mapping, 1)


(***************************************************************************)
(* Response-count normalisation.                                           *)
(***************************************************************************)

\* Index of the first candidate of result, at or after i, whose trimmed text
\* differs from src, blank or not; 0 when there is none.
RECURSIVE FirstDiffering(_, _, _)
FirstDiffering(result, src, i) ==
    IF i > Len(result) THEN 0
    ELSE IF Strip(result[i]) # src THEN i
         ELSE FirstDiffering(result, src, i + 1)

\* Index of the first candidate of result, at or after i, that is non-blank
\* and whose trimmed text differs from src; 0 when there is none.
RECURSIVE FirstCandidate(_, _, _)
FirstCandidate(result, src, i) ==
    IF i > Len(result) THEN 0
    ELSE IF Strip(result[i]) # <<>> /\ Strip(result[i]) # src THEN i
         ELSE FirstCandidate(result, src, i + 1)

\* normalize_translation_count that pads a short result with the leading
\* sources instead of the sources at the missing positions.
NormalizePadHead(result, source_texts) ==
    LET expected == Len(source_texts)
        got      == Len(result)
        k        == IF expected = 1
                    THEN FirstCandidate(result, Strip(source_texts[1]), 1)
                    ELSE 0
    IN  IF got = expected THEN [out |-> result, warn |-> NoWarn]
        ELSE IF expected = 0 THEN [out |-> <<>>, warn |-> NoWarn]
        ELSE IF got = 0 THEN [out |-> source_texts, warn |-> "count_mismatch_zero"]
        ELSE IF got > expected
             THEN IF k > 0
                  THEN [out |-> <<result[k]>>, warn |-> "count_mismatch_single_extra"]
                  ELSE [out |-> SubSeq(result, 1, expected),
                        warn |-> "count_mismatch_extra"]
        ELSE [out |-> result \o SubSeq(source_texts, 1, expected - got),
              warn |-> "count_mismatch_missing"]

\* normalize_translation_count that returns the result as it is.
NormalizeKeepsResult(result, source_texts) == [out |-> result, warn |-> NoWarn]

\* normalize_translation_count(result, source_texts): the normalised list and
\* the warn_once key of the branch taken (None when no warning is raised).
NormalizeTranslationCount(result, source_texts) ==
    LET expected == Len(source_texts)
        got      == Len(result)
        k        == IF expected = 1
                    THEN FirstCandidate(result, Strip(source_texts[1]), 1)
                    ELSE 0
    IN  IF got = expected THEN [out |-> result, warn |-> NoWarn]
        ELSE IF expected = 0 THEN [out |-> <<>>, warn |-> NoWarn]
        ELSE IF got = 0 THEN [out |-> source_texts, warn |-> "count_mismatch_zero"]
        ELSE IF got > expected
             THEN IF k > 0
                  THEN [out |-> <<result[k]>>, warn |-> "count_mismatch_single_extra"]
                  ELSE [out |-> SubSeq(result, 1, expected),
                        warn |-> "count_mismatch_extra"]
        ELSE [out |-> result \o SubSeq(source_texts, got + 1, expected),
              warn |-> "count_mismatch_missing"]

(***************************************************************************)
(* Translator configurations and provider keys.                            *)
(***************************************************************************)

Bar == <<"|">>

PathChat == <<"/", "c", "h", "a", "t", "/", "c", "o", "m", "p", "l", "e", "t",
              "i", "o", "n", "s">>
PathV1 == <<"/", "v", "1">>
PathV2Translate == <<"/", "v", "2", "/", "t", "r", "a", "n", "s", "l", "a", "t", "e">>

\* str.rstrip("/")
RECURSIVE RStripSlash(_)
RStripSlash(s) ==
    IF s # <<>> /\ s[Len(s)] = "/" THEN RStripSlash(SubSeq(s, 1, Len(s) - 1)) ELSE s

BuildOpenAIEndpoint(base_url) ==
    LET base == RStripSlash(base_url)
    IN  IF EndsWith(base, PathChat) THEN base
        ELSE IF EndsWith(base, PathV1) THEN base \o PathChat
        ELSE base \o PathV1 \o PathChat

BuildDeeplEndpoint(base_url) ==
    LET base == RStripSlash(base_url)
    IN  IF EndsWith(base, PathV2Translate) THEN base ELSE base \o PathV2Translate

\* A translator configuration is a record
\*   [kind, base_url, model, source_lang, target]
\* where an OpenAITranslator reads base_url, model and target (its
\* target_language) and a DeepLTranslator reads base_url, source_lang and
\* target (its target_lang).
Endpoint(c) ==
    IF c.kind = "openai" THEN BuildOpenAIEndpoint(c.base_url)
    ELSE BuildDeeplEndpoint(c.base_url)

\* self.provider_key of the two translators.
ProviderKey(c) ==
    IF c.kind = "openai"
    THEN <<"o", "p", "e", "n", "a", "i">> \o Bar \o Endpoint(c) \o Bar
             \o c.model \o Bar \o c.target
    ELSE <<"d", "e", "e", "p", "l">> \o Bar \o Endpoint(c) \o Bar
             \o (IF c.source_lang # <<>> THEN c.source_lang
                 ELSE <<"a", "u", "t", "o">>)
             \o Bar \o c.target

(***************************************************************************)
(* Translation cache.                                                      *)
(***************************************************************************)

\* TranslationCache._hash_key: the SHA-1 digest of provider_key + "\n" +
\* source_text.  The digest is represented by the text it is computed from
\* (SHA-1 is taken to be collision-free on the texts of a run).
HashKey(provider_key, source_text) == provider_key \o <<"\n">> \o source_text

\* A stored translation that is not a string (a cache file may hold one).
NotAString == <<"not-a-string">>

\* TranslationCache.get without the comparison of the stored provider.
CacheGetNoProviderCheck(es, provider_key, source_text) ==
    LET key == HashKey(provider_key, source_text)
    IN  IF key \notin DOMAIN es THEN None
        ELSE LET entry == es[key]
             IN  IF entry.source # source_text THEN None
                 ELSE IF entry.translation = NotAString THEN None
                 ELSE IF HasTempPlaceholders(entry.translation) THEN None
                 ELSE entry.translation

\* TranslationCache.get without the placeholder guard.
CacheGetNoTokenGuard(es, provider_key, source_text) ==
    LET key == HashKey(provider_key, source_text)
    IN  IF key \notin DOMAIN es THEN None
        ELSE LET entry == es[key]
             IN  IF entry.source # source_text THEN None
                 ELSE IF entry.provider # provider_key THEN None
                 ELSE IF entry.translation = NotAString THEN None
                 ELSE entry.translation

\* TranslationCache.get
CacheGet(es, provider_key, source_text) ==
    LET key == HashKey(provider_key, source_text)
    IN  IF key \notin DOMAIN es THEN None
        ELSE LET entry == es[key]
             IN  IF entry.source # source_text THEN None
                 ELSE IF entry.provider # provider_key THEN None
                 ELSE IF entry.translation = NotAString THEN None
                 ELSE IF HasTempPlaceholders(entry.translation) THEN None
                 ELSE entry.translation

\* TranslationCache.set that starts a new entry map.
CacheSetAlone(es, provider_key, source_text, translation) ==
    [k \in {HashKey(provider_key, source_text)} |->
        [provider |-> provider_key, source |-> source_text,
         translation |-> translation]]

\* TranslationCache.set: upsert by hash.
CacheSet(es, provider_key, source_text, translation) ==
    LET key == HashKey(provider_key, source_text)
    IN  [k \in DOMAIN es \cup {key} |->
            IF k = key
            THEN [provider |-> provider_key, source |-> source_text,
                  translation |-> translation]
            ELSE es[k]]

\* The empty entry map.
NoEntries == [k \in {} |-> None]

\* The cache file after a save that writes nothing.
SavedFileStale(es, file) == file

\* TranslationCache.save: the cache file after it, given the entries and the
\* file before it: the whole entry map replaces the file's.
SavedFile(es, file) == es

\* A cache file cut off in the middle of path.write_text: no JSON document.
TornFile == [k \in {<<"torn">>} |-> None]

\* TranslationCache.__init__: the entries loaded from the cache file; a file
\* json.loads fails on leaves the entries empty.
LoadCache(file) == IF file = TornFile THEN NoEntries ELSE file

(***************************************************************************)
(* Lines, the line job extractor and the rewriting of lines.               *)
(***************************************************************************)

\* A line of a tl file is the record [kind, prefix, text, suffix, ending]:
\* kind names the first pattern of collect_line_jobs' cascade that the line
\* (without its ending) matches,
\*   "comment"  COMMENT_SAY_RE      "old"  OLD_RE      "new"  NEW_RE
\*   "say"      SAY_RE (and the line does not start with #)
\*   "other"    none of them, and the line is not blank and no comment
\*   "skip"     none of them, and the line is blank or a comment
\* prefix, text and suffix are the named groups of the match, and the raw
\* line is prefix + '"' + text + '"' + suffix + ending.

\* Characters in code-point order: the order sorted() compares texts by.
OrdTable ==
    <<"\t", "\n", "\r", " ", "\"", "#", "%", "(", ")", "/",
      "0", "1", "2", "3", "4", "5", "6", "7", "8", "9",
      "A", "B", "C", "D", "E", "F", "G", "H", "I", "J", "K", "L", "M",
      "N", "O", "P", "Q", "R", "S", "T", "U", "V", "W", "X", "Y", "Z",
      "[", "\\", "]", "_",
      "a", "b", "c", "d", "e", "f", "g", "h", "i", "j", "k", "l", "m",
      "n", "o", "p", "q", "r", "s", "t", "u", "v", "w", "x", "y", "z",
      "{", "|", "}">>

Ord(c) == CHOOSE i \in 1..Len(OrdTable) : OrdTable[i] = c

RECURSIVE TextLess(_, _)
TextLess(a, b) ==
    IF a = <<>> THEN b # <<>>
    ELSE IF b = <<>> THEN FALSE
    ELSE IF Head(a) = Head(b) THEN TextLess(Tail(a), Tail(b))
    ELSE Ord(Head(a)) < Ord(Head(b))

\* sorted(S) for a set of texts.
RECURSIVE SortTexts(_)
SortTexts(S) ==
    IF S = {} THEN <<>>
    ELSE LET m == CHOOSE x \in S : \A y \in S \ {x} : TextLess(x, y)
         IN  <<m>> \o SortTexts(S \ {m})

\* escape_renpy_string
EscapeRenpyString(text) ==
    LET e1 == Replace(text, <<"\\">>, <<"\\", "\\">>)
        e2 == Replace(e1, <<"\"">>, <<"\\", "\"">>)
        e3 == Replace(e2, <<"\r", "\n">>, <<"\n">>)
        e4 == Replace(e3, <<"\r">>, <<"\n">>)
    IN  Replace(e4, <<"\n">>, <<"\\", "n">>)

\* An inclusion test that every closed job passes.
JobAlwaysIncluded(overwrite, current, source) == TRUE

\* The inclusion test of a closed job.
JobIncluded(overwrite, current, source) ==
    overwrite \/ current = source \/ HasTempPlaceholders(current)

\* What a closing line takes as its source: the pending slot of its kind if
\* set, else its own text.
CloseSource(pending, current) == IF pending # None THEN pending ELSE current

\* The pending slots after a line, when only a closing line clears them.
SlotsAfterOtherKeeps(line, pending_old, pending_comment) ==
    CASE line.kind = "comment" ->
            [pending_old |-> pending_old, pending_comment |-> line.text]
      [] line.kind = "old" ->
            [pending_old |-> line.text, pending_comment |-> pending_comment]
      [] line.kind \in {"new", "say"} ->
            [pending_old |-> None, pending_comment |-> None]
      [] OTHER ->
            [pending_old |-> pending_old, pending_comment |-> pending_comment]

\* The pending slots after a line, when a closing line leaves them.
SlotsAfterCloseKeeps(line, pending_old, pending_comment) ==
    CASE line.kind = "comment" ->
            [pending_old |-> pending_old, pending_comment |-> line.text]
      [] line.kind = "old" ->
            [pending_old |-> line.text, pending_comment |-> pending_comment]
      [] line.kind = "other" ->
            [pending_old |-> None, pending_comment |-> None]
      [] OTHER ->
            [pending_old |-> pending_old, pending_comment |-> pending_comment]

\* The pending slots after a line of the loop of collect_line_jobs.  The
\* kind of a line is the first test of the loop body it passes: "comment"
\* (COMMENT_SAY_RE), "old" (OLD_RE), "new" (NEW_RE), "say" (SAY_RE, not a
\* comment), "other" (non-blank, not a comment); a blank line has kind
\* "skip" and a comment line that COMMENT_SAY_RE does not match kind "hash".
SlotsAfter(line, pending_old, pending_comment) ==
    CASE line.kind = "comment" ->
            [pending_old |-> pending_old, pending_comment |-> line.text]
      [] line.kind = "old" ->
            [pending_old |-> line.text, pending_comment |-> pending_comment]
      [] line.kind \in {"new", "say", "other"} ->
            [pending_old |-> None, pending_comment |-> None]
      [] OTHER ->
            [pending_old |-> pending_old, pending_comment |-> pending_comment]

\* The jobs after line i of the loop of collect_line_jobs.
JobsAfter(line, i, overwrite, pending_old, pending_comment, acc) ==
    IF line.kind \notin {"new", "say"} THEN acc
    ELSE
    LET source == IF line.kind = "new" THEN CloseSource(pending_old, line.text)
                  ELSE CloseSource(pending_comment, line.text)
    IN  IF JobIncluded(overwrite, line.text, source)
        THEN Append(acc, [line_index |-> i, prefix |-> line.prefix,
                          suffix |-> line.suffix, source_text |-> source,
                          current_text |-> line.text])
        ELSE acc

\* collect_line_jobs: the loop over the lines from line i on, with the two
\* pending slots and the jobs collected so far.
RECURSIVE CollectFrom(_, _, _, _, _, _)
CollectFrom(ls, i, overwrite, pending_old, pending_comment, acc) ==
    IF i > Len(ls) THEN acc
    ELSE CollectFrom(ls, i + 1, overwrite,
                     SlotsAfter(ls[i], pending_old, pending_comment).pending_old,
                     SlotsAfter(ls[i], pending_old, pending_comment).pending_comment,
                     JobsAfter(ls[i], i, overwrite, pending_old, pending_comment,
                               acc))

CollectLineJobs(ls, overwrite) == CollectFrom(ls, 1, overwrite, None, None, <<>>)

\* chunked(items, size) without the last, shorter chunk.
ChunkedFullOnly(items, size) ==
    [k \in 1..(Len(items) \div size) |->
        SubSeq(items, (k - 1) * size + 1, k * size)]

\* chunked(items, size)
Chunked(items, size) ==
    [k \in 1..((Len(items) + size - 1) \div size) |->
        SubSeq(items, (k - 1) * size + 1,
               IF k * size < Len(items) THEN k * size ELSE Len(items))]

\* FileStats()
ZeroStats ==
    [translated |-> 0, skipped |-> 0, failed |-> 0, deferred |-> 0,
     quota_exceeded |-> FALSE, changed |-> FALSE]

\* The ending apply_translations_to_file gives the rewritten line: that of
\* the old line when it is "\r\n" or "\n", none otherwise.
KeptEnding(ending) ==
    IF EndsWith(ending, <<"\r", "\n">>) THEN <<"\r", "\n">>
    ELSE IF EndsWith(ending, <<"\n">>) THEN <<"\n">>
    ELSE <<>>

\* new_line of apply_translations_to_file, for the job's line and the
\* translation of its source.
NewLine(old_line, job, translated) ==
    [kind |-> old_line.kind, prefix |-> job.prefix,
     text |-> EscapeRenpyString(translated), suffix |-> job.suffix,
     ending |-> KeptEnding(old_line.ending)]

\* The loop of apply_translations_to_file over the jobs from job k on: the
\* lines and the statistics after it.
RECURSIVE ApplyFrom(_, _, _, _, _)
ApplyFrom(js, k, ls, translated_map, st) ==
    IF k > Len(js) THEN [lines |-> ls, stats |-> st]
    ELSE
    LET job == js[k]
    IN  IF job.source_text \notin DOMAIN translated_map
        THEN ApplyFrom(js, k + 1, ls, translated_map,
                       [st EXCEPT !.deferred = @ + 1])
        ELSE
        LET old_line == ls[job.line_index]
            new_line == NewLine(old_line, job, translated_map[job.source_text])
        IN  IF new_line = old_line
            THEN ApplyFrom(js, k + 1, ls, translated_map,
                           [st EXCEPT !.skipped = @ + 1])
            ELSE ApplyFrom(js, k + 1, [ls EXCEPT ![job.line_index] = new_line],
                           translated_map,
                           [st EXCEPT !.translated = @ + 1, !.changed = TRUE])

\* The loop over the jobs with the deferred jobs counted as skipped.
ApplyJobsDeferredSkipped(js, ls, translated_map) ==
    LET r == ApplyFrom(js, 1, ls, translated_map, ZeroStats)
    IN  [lines |-> r.lines,
         stats |-> [r.stats EXCEPT !.skipped = @ + r.stats.deferred,
                                   !.deferred = 0]]

ApplyJobs(js, ls, translated_map) == ApplyFrom(js, 1, ls, translated_map, ZeroStats)

\* path.read_text followed by splitlines(keepends=True): the file is opened
\* in text mode, which hands every "\r\n" and every lone "\r" over as "\n".
ReadText(file) ==
    [i \in 1..Len(file) |->
        IF file[i].ending \in {<<"\r", "\n">>, <<"\r">>}
        THEN [file[i] EXCEPT !.ending = <<"\n">>] ELSE file[i]]

\* path.write_text of the joined lines: text mode writes os.linesep for every
\* "\n".
WriteText(ls, linesep) ==
    [i \in 1..Len(ls) |->
        IF ls[i].ending = <<"\n">> THEN [ls[i] EXCEPT !.ending = linesep]
        ELSE ls[i]]

(***************************************************************************)
(* translate_unique_texts.                                                 *)
(***************************************************************************)

\* The first loop: the cache hits, as the initial results.
CacheHits(unique_texts, es, provider_key) ==
    LET hit == {t \in {unique_texts[i] : i \in 1..Len(unique_texts)} :
                   CacheGet(es, provider_key, t) # None}
    IN  [t \in hit |-> CacheGet(es, provider_key, t)]

\* The first loop with every text taken as pending.
CacheMissesEverything(unique_texts, es, provider_key) == unique_texts

\* The first loop: the texts without a valid cache entry, in order.
CacheMisses(unique_texts, es, provider_key) ==
    SelectSeq(unique_texts, LAMBDA t : CacheGet(es, provider_key, t) = None)

\* masked_batch of a batch.
MaskedBatch(batch) == [k \in 1..Len(batch) |-> MaskPlaceholders(batch[k]).text]

\* What a resolved item is stored as, with the source kept for every item.
ResolveKeepSource(original, translated_item, mapping) == original

\* What a resolved item is stored as, without the checks of the restored text.
ResolveAsAnswered(original, translated_item, mapping) ==
    RestorePlaceholders(translated_item, mapping)

\* What a resolved item is stored as: placeholders restored and trimmed, or
\* the source text when that is empty or still holds a synthetic token.
ResolveItem(original, translated_item, mapping) ==
    LET restored == Strip(RestorePlaceholders(translated_item, mapping))
        filled   == IF restored = <<>> THEN original ELSE restored
    IN  IF HasTempPlaceholders(filled) THEN original ELSE filled

\* The loop over translated_masked from item idx on: results and the cache
\* entries after it.
RECURSIVE RecordFrom(_, _, _, _, _, _)
RecordFrom(batch, translated_masked, idx, res, es, provider_key) ==
    IF idx > Len(batch) THEN [results |-> res, entries |-> es]
    ELSE IF translated_masked[idx] = None
    THEN RecordFrom(batch, translated_masked, idx + 1, res, es, provider_key)
    ELSE
    LET original == batch[idx]
        restored == ResolveItem(original, translated_masked[idx],
                                MaskPlaceholders(original).mapping)
    IN  RecordFrom(batch, translated_masked, idx + 1,
                   [t \in DOMAIN res \cup {original} |->
                       IF t = original THEN restored ELSE res[t]],
                   CacheSet(es, provider_key, original, restored),
                   provider_key)

\* A batch recorded without storing anything.
RecordNothing(batch, translated_masked, res, es, provider_key) ==
    [results |-> res, entries |-> es]

\* A batch recorded with the items of translated_masked in reverse order.
RecordBatchReversed(batch, translated_masked, res, es, provider_key) ==
    RecordFrom(batch,
               [k \in 1..Len(translated_masked) |->
                   translated_masked[Len(translated_masked) + 1 - k]],
               1, res, es, provider_key)

RecordBatch(batch, translated_masked, res, es, provider_key) ==
    RecordFrom(batch, translated_masked, 1, res, es, provider_key)

\* main(): whether the loop over the files stops after a file.
StopAfterFile(file_stats, stop_on_quota) ==
    file_stats.quota_exceeded /\ stop_on_quota

(***************************************************************************)
(* The response parser: json.loads / JSONDecoder.raw_decode on the         *)
(* characters a response of the model can hold (strings, arrays, objects   *)
(* and the literals; no digits, no minus sign, no \u escape), then the     *)
(* layered strategies of extract_first_json_array.                         *)
(***************************************************************************)

\* Whitespace the JSON decoder skips between tokens.
JsonWS == {" ", "\t", "\n", "\r"}

\* The escapes of a JSON string, by the character after the backslash.
JsonEscapes ==
    [c \in {"\"", "\\", "/", "n", "r", "t"} |->
        CASE c = "n" -> "\n"
          [] c = "r" -> "\r"
          [] c = "t" -> "\t"
          [] OTHER   -> c]

\* Smallest index >= i of s that holds no JSON whitespace (Len(s) + 1 at the end).
RECURSIVE SkipWs(_, _)
SkipWs(s, i) == IF i <= Len(s) /\ s[i] \in JsonWS THEN SkipWs(s, i + 1) ELSE i

\* A decoded value: kind is "str", "arr", "obj" or "lit"; next is the index
\* after it; text is the string; flat says that all items of the array are
\* strings, and items are those strings; pairs are the members of the object,
\* each <<key, value is an array of strings, its strings>>.
JsonFail ==
    [ok |-> FALSE, next |-> 0, kind |-> "none", text |-> <<>>, flat |-> FALSE,
     items |-> <<>>, pairs |-> <<>>]

JsonStr(t, n) == [JsonFail EXCEPT !.ok = TRUE, !.next = n, !.kind = "str", !.text = t]

JsonArr(fl, its, n) ==
    [JsonFail EXCEPT !.ok = TRUE, !.next = n, !.kind = "arr", !.flat = fl,
                     !.items = its]

JsonObj(ps, n) == [JsonFail EXCEPT !.ok = TRUE, !.next = n, !.kind = "obj", !.pairs = ps]

JsonLit(n) == [JsonFail EXCEPT !.ok = TRUE, !.next = n, !.kind = "lit"]

\* The body of a JSON string from index j on (the opening quote is before j),
\* with acc the characters decoded so far.
RECURSIVE ParseStringFrom(_, _, _)
ParseStringFrom(s, j, acc) ==
    IF j > Len(s) THEN JsonFail
    ELSE IF s[j] = "\"" THEN JsonStr(acc, j + 1)
    ELSE IF s[j] = "\\"
    THEN IF j + 1 <= Len(s) /\ s[j + 1] \in DOMAIN JsonEscapes
         THEN ParseStringFrom(s, j + 2, Append(acc, JsonEscapes[s[j + 1]]))
         ELSE JsonFail
    ELSE IF s[j] \in {"\n", "\r", "\t"} THEN JsonFail
    ELSE ParseStringFrom(s, j + 1, Append(acc, s[j]))

JsonLiterals ==
    { <<"n", "u", "l", "l">>, <<"t", "r", "u", "e">>, <<"f", "a", "l", "s", "e">>,
      <<"N", "a", "N">>, <<"I", "n", "f", "i", "n", "i", "t", "y">> }

RECURSIVE ParseValue(_, _)
RECURSIVE ParseItems(_, _, _, _)
RECURSIVE ParseMembers(_, _, _)

\* JSONDecoder.raw_decode(s, i - 1): the value that starts at index i.
ParseValue(s, i) ==
    IF i > Len(s) THEN JsonFail
    ELSE IF s[i] = "\"" THEN ParseStringFrom(s, i + 1, <<>>)
    ELSE IF s[i] = "["
    THEN LET j == SkipWs(s, i + 1)
         IN  IF j <= Len(s) /\ s[j] = "]" THEN JsonArr(TRUE, <<>>, j + 1)
             ELSE ParseItems(s, j, TRUE, <<>>)
    ELSE IF s[i] = "{"
    THEN LET j == SkipWs(s, i + 1)
         IN  IF j <= Len(s) /\ s[j] = "}" THEN JsonObj(<<>>, j + 1)
             ELSE ParseMembers(s, j, <<>>)
    ELSE IF \E l \in JsonLiterals : StartsWith(s, i, l)
    THEN JsonLit(i + Len(CHOOSE l \in JsonLiterals : StartsWith(s, i, l)))
    ELSE JsonFail

\* The items of an array from index i on, an item expected at i.
ParseItems(s, i, fl, its) ==
    LET v == ParseValue(s, i)
    IN  IF ~v.ok THEN JsonFail
        ELSE
        LET fl2  == fl /\ v.kind = "str"
            its2 == IF fl2 THEN Append(its, v.text) ELSE <<>>
            j    == SkipWs(s, v.next)
        IN  IF j > Len(s) THEN JsonFail
            ELSE IF s[j] = "]" THEN JsonArr(fl2, its2, j + 1)
            ELSE IF s[j] = "," THEN ParseItems(s, SkipWs(s, j + 1), fl2, its2)
            ELSE JsonFail

\* The members of an object from index i on, a key expected at i.
ParseMembers(s, i, ps) ==
    IF i > Len(s) \/ s[i] # "\"" THEN JsonFail
    ELSE
    LET k == ParseStringFrom(s, i + 1, <<>>)
    IN  IF ~k.ok THEN JsonFail
        ELSE
        LET c == SkipWs(s, k.next)
        IN  IF c > Len(s) \/ s[c] # ":" THEN JsonFail
            ELSE
            LET v == ParseValue(s, SkipWs(s, c + 1))
            IN  IF ~v.ok THEN JsonFail
                ELSE
                LET ps2 == Append(ps, <<k.text, v.kind = "arr" /\ v.flat, v.items>>)
                    j   == SkipWs(s, v.next)
                IN  IF j > Len(s) THEN JsonFail
                    ELSE IF s[j] = "}" THEN JsonObj(ps2, j + 1)
                    ELSE IF s[j] = "," THEN ParseMembers(s, SkipWs(s, j + 1), ps2)
                    ELSE JsonFail

\* json.loads(s): one value, whitespace around it, nothing else.
JsonLoads(s) ==
    LET v == ParseValue(s, SkipWs(s, 1))
    IN  IF v.ok /\ SkipWs(s, v.next) > Len(s) THEN v ELSE JsonFail

\* A list of strings, or None.
NoList == [found |-> FALSE, list |-> <<>>]

SomeList(l) == [found |-> TRUE, list |-> l]

\* The keys extract_string_array looks under, in its order.
KnownKeys ==
    << <<"t", "r", "a", "n", "s", "l", "a", "t", "i", "o", "n", "s">>,
       <<"t", "e", "x", "t", "s">>,
       <<"o", "u", "t", "p", "u", "t">>,
       <<"r", "e", "s", "u", "l", "t">>,
       <<"d", "a", "t", "a">> >>

\* dict.get(key) of a decoded object: its last member of that key, 0 if none.
LastMember(ps, key) ==
    LET at == {k \in 1..Len(ps) : ps[k][1] = key}
    IN  IF at = {} THEN 0 ELSE CHOOSE k \in at : \A m \in at : m <= k

RECURSIVE NestedFrom(_, _)
NestedFrom(ps, n) ==
    IF n > Len(KnownKeys) THEN NoList
    ELSE LET k == LastMember(ps, KnownKeys[n])
         IN  IF k # 0 /\ ps[k][2] THEN SomeList(ps[k][3])
             ELSE NestedFrom(ps, n + 1)

ExtractStringArray(value) ==
    IF value.kind = "arr" /\ value.flat THEN SomeList(value.items)
    ELSE IF value.kind = "obj" THEN NestedFrom(value.pairs, 1)
    ELSE NoList

\* The byte order mark, one character of a text.
Bom == "BOM"

RECURSIVE LStripBom(_)
LStripBom(s) == IF s # <<>> /\ Head(s) = Bom THEN LStripBom(Tail(s)) ELSE s

\* Smallest index >= i of s that holds no whitespace (Len(s) + 1 at the end).
RECURSIVE SkipSpace(_, _)
SkipSpace(s, i) == IF i <= Len(s) /\ s[i] \in WS THEN SkipSpace(s, i + 1) ELSE i

\* One pass of re.sub(r",\s*([\]}])", r"\1", s), from index i on.
RECURSIVE DropCommasFrom(_, _)
DropCommasFrom(s, i) ==
    IF i > Len(s) THEN <<>>
    ELSE LET j == SkipSpace(s, i + 1)
         IN  IF s[i] = "," /\ j <= Len(s) /\ s[j] \in {"]", "}"}
             THEN <<s[j]>> \o DropCommasFrom(s, j + 1)
             ELSE <<s[i]>> \o DropCommasFrom(s, i + 1)

RECURSIVE DropCommas(_)
DropCommas(s) ==
    LET once == DropCommasFrom(s, 1)
    IN  IF once = s THEN s ELSE DropCommas(once)

SanitizeJsonLikeText(text) == DropCommas(LStripBom(Strip(text)))

\* The grave accent, one character of a text (named, as the character itself
\* cannot be written in a string of this module).
Grave == "GRAVE"

\* The fence of a code block: three grave accents.
Fence == <<Grave, Grave, Grave>>

\* Smallest index >= i at which pat occurs in s, or 0.
RECURSIVE Find(_, _, _)
Find(s, i, pat) ==
    IF i + Len(pat) - 1 > Len(s) THEN 0
    ELSE IF StartsWith(s, i, pat) THEN i ELSE Find(s, i + 1, pat)

\* Largest index at which pat occurs in s, at or before i, or 0.
RECURSIVE RFind(_, _, _)
RFind(s, i, pat) ==
    IF i < 1 THEN 0
    ELSE IF StartsWith(s, i, pat) THEN i ELSE RFind(s, i - 1, pat)

\* Whether "json" is spelled at index i, in either case of each letter.
JsonWordAt(s, i) ==
    /\ i + 3 <= Len(s)
    /\ s[i] \in {"j", "J"}
    /\ s[i + 1] \in {"s", "S"}
    /\ s[i + 2] \in {"o", "O"}
    /\ s[i + 3] \in {"n", "N"}

\* re.findall of fence, optional "json", \s*, ([\s\S]*?), fence, ignoring
\* case, from index i on: the contents of the fenced blocks, in order.
RECURSIVE CodeBlocksFrom(_, _)
CodeBlocksFrom(text, i) ==
    LET open == Find(text, i, Fence)
    IN  IF open = 0 THEN <<>>
        ELSE
        LET word  == IF JsonWordAt(text, open + 3) THEN open + 7 ELSE open + 3
            body  == SkipSpace(text, word)
            close == Find(text, body, Fence)
        IN  IF close = 0
            THEN \* no closing fence after this opening one, with or without
                 \* the word: the next opening fence is tried
                 CodeBlocksFrom(text, open + 1)
            ELSE <<SubSeq(text, body, close - 1)>> \o CodeBlocksFrom(text, close + 3)

\* candidates of extract_first_json_array: the text and its non-blank blocks.
Candidates(text) ==
    <<text>> \o SelectSeq([k \in DOMAIN CodeBlocksFrom(text, 1) |->
                              Strip(CodeBlocksFrom(text, 1)[k])],
                          LAMBDA b : b # <<>>)

\* parse_inputs of a candidate.
ParseInputs(candidate) ==
    IF SanitizeJsonLikeText(candidate) # candidate
    THEN <<candidate, SanitizeJsonLikeText(candidate)>>
    ELSE <<candidate>>

\* The scan of a parse input for an embedded array or object, from index i.
RECURSIVE EmbeddedFrom(_, _)
EmbeddedFrom(parse_input, i) ==
    IF i > Len(parse_input) THEN NoList
    ELSE IF parse_input[i] \notin {"[", "{"} THEN EmbeddedFrom(parse_input, i + 1)
    ELSE LET data == ParseValue(parse_input, i)
         IN  IF data.ok /\ ExtractStringArray(data).found
             THEN ExtractStringArray(data)
             ELSE EmbeddedFrom(parse_input, i + 1)

\* What one parse input yields: json.loads, then the scan.
StrictParse(parse_input) ==
    LET data == JsonLoads(parse_input)
    IN  IF data.ok /\ ExtractStringArray(data).found
        THEN ExtractStringArray(data)
        ELSE EmbeddedFrom(parse_input, 1)

\* The loop over parse_inputs, from the k-th on.
RECURSIVE StrictInputsFrom(_, _)
StrictInputsFrom(parse_inputs, k) ==
    IF k > Len(parse_inputs) THEN NoList
    ELSE IF StrictParse(parse_inputs[k]).found THEN StrictParse(parse_inputs[k])
    ELSE StrictInputsFrom(parse_inputs, k + 1)

\* The loop over candidates, from the k-th on.
RECURSIVE StrictCandidatesFrom(_, _)
StrictCandidatesFrom(candidates, k) ==
    IF k > Len(candidates) THEN NoList
    ELSE IF StrictInputsFrom(ParseInputs(candidates[k]), 1).found
    THEN StrictInputsFrom(ParseInputs(candidates[k]), 1)
    ELSE StrictCandidatesFrom(candidates, k + 1)

\* Index of the quote closing the body (?:[^"\\]|\\.)* that starts at j, or 0.
RECURSIVE QuotedEnd(_, _)
QuotedEnd(s, j) ==
    IF j > Len(s) THEN 0
    ELSE IF s[j] = "\"" THEN j
    ELSE IF s[j] = "\\"
    THEN IF j + 1 <= Len(s) /\ s[j + 1] # "\n" THEN QuotedEnd(s, j + 2) ELSE 0
    ELSE QuotedEnd(s, j + 1)

\* re.findall(r'"((?:[^"\\]|\\.)*)"', s) from index i on.
RECURSIVE QuotedFrom(_, _)
QuotedFrom(s, i) ==
    IF i > Len(s) THEN <<>>
    ELSE IF s[i] = "\"" /\ QuotedEnd(s, i + 1) # 0
    THEN <<SubSeq(s, i + 1, QuotedEnd(s, i + 1) - 1)>>
            \o QuotedFrom(s, QuotedEnd(s, i + 1) + 1)
    ELSE QuotedFrom(s, i + 1)

DecodeJsonStringFragment(fragment) ==
    LET v == JsonLoads(<<"\"">> \o fragment \o <<"\"">>)
    IN  IF v.ok /\ v.kind = "str" THEN v.text
        ELSE Replace(Replace(fragment, <<"\\", "\"">>, <<"\"">>),
                     <<"\\", "\\">>, <<"\\">>)

\* str.rstrip(chars)
RECURSIVE RStripChars(_, _)
RStripChars(s, chars) ==
    IF s # <<>> /\ s[Len(s)] \in chars
    THEN RStripChars(SubSeq(s, 1, Len(s) - 1), chars) ELSE s

\* m.group(1).strip().rstrip('",')
TrimBroken(group) == RStripChars(Strip(group), {"\"", ","})

\* Smallest index c >= i of a "]" that only whitespace follows, or 0.
RECURSIVE LastBracket(_, _)
LastBracket(s, i) ==
    IF i > Len(s) THEN 0
    ELSE IF s[i] = "]" /\ SkipSpace(s, i + 1) > Len(s) THEN i
    ELSE LastBracket(s, i + 1)

\* Index of the opening quote of the leftmost match of \[\s*" at or after i
\* that the rest of the pattern matches after: a character and a closing
\* bracket at the end (closed), or a character (not closed); 0 if none.
RECURSIVE OpenQuote(_, _, _)
OpenQuote(s, i, closed) ==
    IF i > Len(s) THEN 0
    ELSE LET q == SkipSpace(s, i + 1)
         IN  IF /\ s[i] = "["
                /\ q <= Len(s)
                /\ s[q] = "\""
                /\ IF closed THEN LastBracket(s, q + 2) # 0 ELSE q < Len(s)
             THEN q
             ELSE OpenQuote(s, i + 1, closed)

\* group(1) of re.search(r'\[\s*"([\s\S]+?)\]\s*$', s), or None.
BrokenArrayGroup(s) ==
    LET q == OpenQuote(s, 1, TRUE)
    IN  IF q = 0 THEN None ELSE SubSeq(s, q + 1, LastBracket(s, q + 2) - 1)

\* group(1) of re.search(r'\[\s*"([\s\S]+)$', s), or None.
TruncatedArrayGroup(s) ==
    LET q == OpenQuote(s, 1, FALSE)
    IN  IF q = 0 THEN None ELSE SubSeq(s, q + 1, Len(s))

ExtractRelaxedStringArray(text) ==
    LET candidate == SanitizeJsonLikeText(text)
        start     == Find(candidate, 1, <<"[">>)
        end       == RFind(candidate, Len(candidate), <<"]">>)
        segment   == IF start # 0 /\ end > start
                     THEN SubSeq(candidate, start, end) ELSE candidate
        quoted    == QuotedFrom(segment, 1)
        broken    == BrokenArrayGroup(segment)
        truncated == TruncatedArrayGroup(segment)
    IN  IF quoted # <<>>
        THEN SomeList([k \in DOMAIN quoted |-> DecodeJsonStringFragment(quoted[k])])
        ELSE IF broken # None /\ TrimBroken(broken) # <<>>
        THEN SomeList(<<TrimBroken(broken)>>)
        ELSE IF truncated # None /\ TrimBroken(truncated) # <<>>
        THEN SomeList(<<TrimBroken(truncated)>>)
        ELSE NoList

\* extract_first_json_array: the list it returns, or None when it raises.
ExtractFirstJsonArray(raw) ==
    LET text   == Strip(raw)
        strict == StrictCandidatesFrom(Candidates(text), 1)
    IN  IF text = <<>> THEN NoList
        ELSE IF strict.found THEN strict
        ELSE ExtractRelaxedStringArray(text)

(***************************************************************************)
(* DeepLTranslator.translate_batch: the retry loop over the responses of   *)
(* the endpoint.                                                           *)
(***************************************************************************)

\* A response of the endpoint: the HTTP status; for a success whether the
\* body is JSON and how many translations it holds; the body text otherwise.
\* The message of the exception http_post_form raises for it, with the URL
\* written u; None when it raises nothing.
HttpMessage(resp) ==
    IF resp.status # 200
    THEN <<"H", "T", "T", "P", " ">> \o DecStr(resp.status) \o <<" ", "f", "r", "o", "m", " ", "u", ":", " ">> \o resp.body
    ELSE IF ~resp.json
    THEN <<"I", "n", "v", "a", "l", "i", "d", " ", "J", "S", "O", "N", " ", "r", "e", "s", "p", "o", "n", "s", "e", " ", "f", "r", "o", "m", " ", "u", ":", " ">> \o resp.body
    ELSE None

\* The message of the exception an attempt of translate_batch ends in for a
\* response, with n texts sent; None when the attempt returns.
AttemptMessage(resp, n) ==
    IF HttpMessage(resp) # None THEN HttpMessage(resp)
    ELSE IF resp.count # n
    THEN <<"E", "x", "p", "e", "c", "t", "e", "d", " ">> \o DecStr(n) \o <<" ", "t", "r", "a", "n", "s", "l", "a", "t", "i", "o", "n", "s", ",", " ", "g", "o", "t", " ">> \o DecStr(resp.count) \o <<".">>
    ELSE None

\* The except clause of translate_batch, with every message handled alike.
AfterFailureRetryAll(message, attempt, retries) ==
    [raise |-> "none",
     sleep |-> IF attempt < retries
               THEN (IF 2 ^ attempt < 8 THEN 2 ^ attempt ELSE 8) ELSE 0]

\* The except clause of translate_batch: what it raises and how long it
\* sleeps before the next attempt.
AfterFailure(message, attempt, retries) ==
    IF Find(message, 1, <<"H", "T", "T", "P", " ", "4", "5", "6">>) # 0 \/ Find(message, 1, <<"Q", "u", "o", "t", "a", " ", "e", "x", "c", "e", "e", "d", "e", "d">>) # 0
    THEN [raise |-> "QuotaExceededError", sleep |-> 0]
    ELSE [raise |-> "none",
          sleep |-> IF attempt < retries
                    THEN (IF 2 ^ attempt < 8 THEN 2 ^ attempt ELSE 8) ELSE 0]

(***************************************************************************)
(* OpenAITranslator.translate_batch: run_request, the retry loop with the  *)
(* boosted timeout, and warn_once.                                         *)
(***************************************************************************)

\* str.lower()
Lower(s) ==
    LET lo == [A |-> "a", B |-> "b", C |-> "c", D |-> "d", E |-> "e", F |-> "f",
         G |-> "g", H |-> "h", I |-> "i", J |-> "j", K |-> "k", L |-> "l",
         M |-> "m", N |-> "n", O |-> "o", P |-> "p", Q |-> "q", R |-> "r",
         S |-> "s", T |-> "t", U |-> "u", V |-> "v", W |-> "w", X |-> "x",
         Y |-> "y", Z |-> "z"]
    IN  [i \in 1..Len(s) |-> IF s[i] \in DOMAIN lo THEN lo[s[i]] ELSE s[i]]

\* warn_once without the test of the key.
WarnEveryTime(keys, key) == [keys |-> keys \cup {key}, shown |-> TRUE]

\* warn_once(key, msg): WARN_ONCE_KEYS afterwards and whether the warning is
\* printed.
WarnOnce(keys, key) == [keys |-> keys \cup {key}, shown |-> key \notin keys]

\* run_request once extract_first_json_array has returned the list parsed
\* or has raised for the text.
Normalized(parsed, texts, text) ==
    IF ~parsed.found
    THEN [message |-> <<"M", "o", "d", "e", "l", " ", "r", "e", "s", "p", "o",
                        "n", "s", "e", " ", "i", "s", " ", "n", "o", "t", " ",
                        "a", " ", "v", "a", "l", "i", "d", " ", "J", "S", "O",
                        "N", " ", "s", "t", "r", "i", "n", "g", " ", "a", "r",
                        "r", "a", "y", ":", " ">>
                      \o SubSeq(text, 1, IF Len(text) < 500 THEN Len(text) ELSE 500),
          out |-> <<>>, warn |-> NoWarn]
    ELSE [message |-> None,
          out |-> NormalizeTranslationCount(parsed.list, texts).out,
          warn |-> NormalizeTranslationCount(parsed.list, texts).warn]

\* run_request for a response of the endpoint, which is an error of the
\* request (resp.error is the message of the exception) or the content of
\* the first choice: the message of the exception run_request ends in (None
\* when it returns), the list it returns and the warn_once key of
\* normalize_translation_count.
RunRequest(resp, texts) ==
    IF resp.error # None
    THEN [message |-> resp.error, out |-> <<>>, warn |-> NoWarn]
    ELSE IF Strip(resp.content) = <<>>
    THEN [message |-> <<"M", "o", "d", "e", "l", " ", "r", "e", "s", "p", "o",
                        "n", "s", "e", " ", "i", "s", " ", "e", "m", "p", "t",
                        "y", ".">>,
          out |-> <<>>, warn |-> NoWarn]
    ELSE Normalized(ExtractFirstJsonArray(Strip(resp.content)), texts,
                    Strip(resp.content))

\* max and min of two integers.
MaxOf(a, b) == IF a >= b THEN a ELSE b

MinOf(a, b) == IF a <= b THEN a ELSE b

\* max((len(t) for t in texts), default=0)
RECURSIVE MaxChars(_)
MaxChars(texts) ==
    IF texts = <<>> THEN 0 ELSE MaxOf(Len(Head(texts)), MaxChars(Tail(texts)))

\* compute_adaptive_timeout without the upper limit of four times the base.
AdaptiveUncapped(base_timeout, texts) ==
    LET safe_base == MaxOf(base_timeout, 1)
    IN  MaxOf(safe_base, safe_base + (MaxChars(texts) \div 30))

\* compute_adaptive_timeout
ComputeAdaptiveTimeout(base_timeout, texts) ==
    LET safe_base == MaxOf(base_timeout, 1)
        adaptive  == safe_base + (MaxChars(texts) \div 30)
    IN  MaxOf(safe_base, MinOf(adaptive, safe_base * 4))

\* boosted_timeout of OpenAITranslator.translate_batch
BoostedTimeout(timeout, adaptive_timeout) ==
    MinOf(adaptive_timeout * 2, MaxOf(timeout * 8, adaptive_timeout))

\* The test before the boosted request, without the flag.
BoostOnEveryTimeout(message, timeout_boost_used) ==
    Find(Lower(message), 1, <<"t", "i", "m", "e", "d", " ", "o", "u", "t">>) # 0

\* (not timeout_boost_used) and ("timed out" in str(e).lower())
BoostWanted(message, timeout_boost_used) ==
    /\ ~timeout_boost_used
    /\ Find(Lower(message), 1, <<"t", "i", "m", "e", "d", " ", "o", "u", "t">>) # 0

\* The sleep after a failed attempt, made after the last attempt too.
BackoffAfterLast(attempt, retries) == IF 2 ^ attempt < 8 THEN 2 ^ attempt ELSE 8

\* The seconds slept after a failed attempt: min(2**attempt, 8) when another
\* attempt follows, none otherwise.
Backoff(attempt, retries) ==
    IF attempt < retries THEN (IF 2 ^ attempt < 8 THEN 2 ^ attempt ELSE 8) ELSE 0

(***************************************************************************)
(* Bounded input sets.                                                     *)
(***************************************************************************)

\* All sequences over S of length at most n.
RECURSIVE SeqsUpTo(_, _)
SeqsUpTo(S, n) ==
    IF n = 0 THEN {<<>>}
    ELSE LET prev == SeqsUpTo(S, n - 1)
         IN  prev \cup {Append(p, x) : p \in prev, x \in S}

\* All concatenations of at most n members of a set of texts.
RECURSIVE Concats(_, _)
Concats(P, n) ==
    IF n = 0 THEN {<<>>}
    ELSE LET prev == Concats(P, n - 1)
         IN  prev \cup {p \o q : p \in prev, q \in P}

\* Number of text fragments a codec input is made of.
MaxParts == 3

\* Fragments of codec inputs: plain text, each recognised placeholder form,
\* unbalanced delimiters, and text that spells (part of) a synthetic token.
MaskPieces ==
    { <<"a">>,
      <<"[", "a", "]">>,
      <<"{", "b", "}">>,
      <<"%", "s">>,
      <<"%", "(", "k", ")", "d">>,
      <<"\\", "n">>,
      <<"[">>,
      <<"]">>,
      Token(0),
      Token(1),
      <<"_", "_", "R", "N", "P", "H", "_", "0">>,
      <<"_", "_">> }

MaskInputs == Concats(MaskPieces, MaxParts)

\* Largest number of source texts of a normalisation input.
MaxSources == 2

\* Texts of normalisation inputs: plain, padded with blanks, blank, empty.
NormTexts == { <<"a">>, <<" ", "a">>, <<"x">>, <<" ">>, <<>> }

NormInputs ==
    [result : SeqsUpTo(NormTexts, MaxSources + 1),
     sources : SeqsUpTo(NormTexts, MaxSources)]

\* Translator configurations of the provider-key harness: components that
\* differ, base URLs that name the same endpoint, and components that
\* contain the separator of the key.
KeyConfigs ==
    [kind : {"openai"},
     base_url : { <<"h">>, <<"h", "/", "v", "1">> },
     model : { <<"m">>, <<"m", "|", "t">> },
     source_lang : { <<>> },
     target : { <<"t">>, <<"t", "|", "t">> }]
    \cup
    [kind : {"deepl"},
     base_url : { <<"h">> },
     model : { <<>> },
     source_lang : { <<>>, <<"E">> },
     target : { <<"t">>, <<"T">> }]

\* The cache harness: two translators that differ in the target language only.
CacheConfigA ==
    [kind |-> "openai", base_url |-> <<"h">>, model |-> <<"m">>,
     source_lang |-> <<>>, target |-> <<"t">>]

CacheConfigB == [CacheConfigA EXCEPT !.target = <<"u">>]

CacheProviders == { ProviderKey(CacheConfigA), ProviderKey(CacheConfigB) }

CacheSources == { <<"a">>, <<"b">> }

CacheTranslations == { <<"x">>, Token(0) \o <<"x">> }

\* Number of set operations of the cache harness.
MaxSets == 3

\* The entry for (provider p, source s) as the fields f stored under its hash.
OneEntry(p, s, f) == [k \in {HashKey(p, s)} |-> f]

\* Entry maps a cache file may hold: none, a valid entry, an entry whose
\* stored provider or source is not the one its hash was computed from, an
\* entry whose translation kept a synthetic token, and one whose translation
\* is not a string.
LoadedCaches ==
    LET pa == ProviderKey(CacheConfigA)
        pb == ProviderKey(CacheConfigB)
        a  == <<"a">>
        b  == <<"b">>
    IN  { NoEntries,
          OneEntry(pa, a, [provider |-> pa, source |-> a, translation |-> <<"y">>]),
          OneEntry(pa, a, [provider |-> pb, source |-> a, translation |-> <<"y">>]),
          OneEntry(pa, a, [provider |-> pa, source |-> b, translation |-> <<"y">>]),
          OneEntry(pa, a, [provider |-> pa, source |-> a,
                           translation |-> <<"y">> \o Token(1)]),
          OneEntry(pa, a, [provider |-> pa, source |-> a,
                           translation |-> NotAString]) }

\* The strings of the lists a response is meant to carry: plain, empty, with
\* a closing bracket, with a comma before a closing bracket, with a quote.
ParseStrings ==
    { <<"a">>, <<>>, <<"a", "]", "x">>, <<"a", ",", "]">>, <<"a", "\"", "x">> }

\* Largest number of strings of an intended list.
MaxList == 2

\* A string as json.dumps writes it.
JsonDumpString(t) ==
    <<"\"">> \o Replace(Replace(t, <<"\\">>, <<"\\", "\\">>), <<"\"">>, <<"\\", "\"">>)
             \o <<"\"">>

RECURSIVE JsonDumpItems(_, _)
JsonDumpItems(l, k) ==
    IF k > Len(l) THEN <<>>
    ELSE (IF k > 1 THEN <<",", " ">> ELSE <<>>)
            \o JsonDumpString(l[k]) \o JsonDumpItems(l, k + 1)

\* A list of strings as a clean JSON array.
JsonDump(l) == <<"[">> \o JsonDumpItems(l, 1) \o <<"]">>

\* The four shapes of a response that carries the list l.
Shaped(l, form) ==
    CASE form = "clean"     -> JsonDump(l)
      [] form = "fenced"    -> Fence \o <<"j", "s", "o", "n", "\n">> \o JsonDump(l)
                                  \o <<"\n">> \o Fence
      [] form = "prose"     -> JsonDump(l) \o <<" ", "o", "k", ".">>
      [] form = "truncated" -> SubSeq(JsonDump(l), 1, Len(JsonDump(l)) - 1)

ArrayForms == {"clean", "fenced", "prose", "truncated"}

\* Responses without array-like content: empty, blank, plain prose, prose
\* with a quoted word.
NoArrayTexts ==
    { <<>>, <<" ", "\n">>, <<"o", "k">>, <<"n", "o", ".", " ", "o", "k">>,
      <<"a", " ", "\"", "x", "\"", " ", "a">> }

\* Other responses: an object under a known key, an array with a trailing
\* comma, an array of a literal, an array after prose, nested arrays, an
\* array of a bare word, a lone bracket, a lone string.
OtherTexts ==
    { <<"{", "\"", "d", "a", "t", "a", "\"", ":", "[", "\"", "a", "\"", "]", "}">>,
      <<"[", "\"", "a", "\"", ",", " ", "]">>,
      <<"[", "n", "u", "l", "l", "]">>,
      <<"o", "k", ":", " ", "[", "\"", "a", "\"", "]">>,
      <<"[", "[", "\"", "a", "\"", "]", "]">>,
      <<"[", "a", "]">>, <<"[">>, <<"\"", "x", "\"">> }

\* Responses with a string array in a fenced code block and another array in
\* the prose around it, after the block or before it.
FencedWithProse ==
    { [intent |-> <<<<"x">>>>, form |-> "fence.first",
       text |-> Fence \o JsonDump(<<<<"x">>>>) \o Fence \o <<" ">>
                   \o JsonDump(<<<<"y">>>>)],
      [intent |-> <<<<"x">>>>, form |-> "fence.last",
       text |-> JsonDump(<<<<"y">>>>) \o <<" ">> \o Fence
                   \o JsonDump(<<<<"x">>>>) \o Fence] }

ParseResponses ==
    [intent : SeqsUpTo(ParseStrings, MaxList), form : ArrayForms]
    \cup {[intent |-> <<>>, form |-> "none", text |-> t] : t \in NoArrayTexts}
    \cup {[intent |-> <<>>, form |-> "other", text |-> t] : t \in OtherTexts}
    \cup FencedWithProse

\* The text of a response.
ResponseText(r) ==
    IF r.form \in ArrayForms THEN Shaped(r.intent, r.form) ELSE r.text

\* Largest --timeout of the harness of the timeouts; the smallest is -1.
MaxBase == 4

\* The lengths of the texts of a batch of that harness.
TimeoutLens == {0, 29, 30, 95, 120, 250}

\* A text of n characters.
TextOfLen(n) == [i \in 1..n |-> "a"]

\* Largest --retries of the harness of the form-POST call.
MaxRetries == 3

\* Largest number of texts sent by the call.
MaxTexts == 2

\* Largest number of calls of translate_batch in a process.
MaxCalls == 2

\* The keys of warn_once.
WarnKeys ==
    {"count_mismatch_zero", "count_mismatch_extra", "count_mismatch_single_extra",
     "count_mismatch_missing", "openai_timeout_boost"}

\* The masked texts of a call of the chat harness.
ChatTexts == { <<<<"a">>>>, <<<<"a">>, <<"b">>>> }

\* The responses to a chat request: the request times out; the endpoint
\* answers 500, or 456 with a quota message; the model answers an array of
\* no, one, two or three strings,
\* an array that repeats the source, prose, or prose that speaks of a timeout.
ChatResponses ==
    [error : { <<"N", "e", "t", "w", "o", "r", "k", " ", "e", "r", "r",
               "o", "r", " ", "c", "a", "l", "l", "i", "n", "g", " ", "u",
               ":", " ", "<", "u", "r", "l", "o", "p", "e", "n", " ", "e",
               "r", "r", "o", "r", " ", "t", "i", "m", "e", "d", " ", "o",
               "u", "t", ">">>,
               <<"H", "T", "T", "P", " ", "5", "0", "0", " ", "f", "r",
               "o", "m", " ", "u", ":", " ">>,
               <<"H", "T", "T", "P", " ", "4", "5", "6", " ", "f", "r",
               "o", "m", " ", "u", ":", " ", "Q", "u", "o", "t", "a", " ",
               "e", "x", "c", "e", "e", "d", "e", "d">> },
     content : {<<>>}]
    \cup [error : {None},
          content : { JsonDump(<<>>), JsonDump(<<<<"x">>>>),
                      JsonDump(<<<<"x">>, <<"y">>>>),
                      JsonDump(<<<<"x">>, <<"y">>, <<"x">>>>),
                      JsonDump(<<<<"a">>, <<"a">>>>),
                      <<"o", "k">>,
                      <<"T", "i", "m", "e", "d", " ", "o", "u", "t", ".">> }]

\* Body texts of error responses and of responses that are not JSON.
DeeplBodies == { <<>>, <<"x">>, <<"Q", "u", "o", "t", "a", " ", "e", "x", "c", "e", "e", "d", "e", "d">> }

\* The responses of the endpoint to a request of n texts: a success with as
\* many translations, with one less, or with a body that is not JSON; the
\* quota status; another error status.
DeeplResponses(n) ==
    [status : {200}, json : {TRUE}, count : {n, n - 1}, body : {<<>>}]
    \cup [status : {200}, json : {FALSE}, count : {0}, body : DeeplBodies \ {<<>>}]
    \cup [status : {456, 500}, json : {FALSE}, count : {0}, body : DeeplBodies]

\* Lines of the files of a run.
CommentLine(t) ==
    [kind |-> "comment", prefix |-> <<" ">>, text |-> t, suffix |-> <<>>,
     ending |-> <<"\n">>]

SayLine(t) ==
    [kind |-> "say", prefix |-> <<" ", "e", " ">>, text |-> t, suffix |-> <<>>,
     ending |-> <<"\n">>]

OldLine(t) ==
    [kind |-> "old", prefix |-> <<" ", "o", "l", "d", " ">>, text |-> t,
     suffix |-> <<>>, ending |-> <<"\n">>]

NewLineOf(t) ==
    [kind |-> "new", prefix |-> <<" ", "n", "e", "w", " ">>, text |-> t,
     suffix |-> <<" ">>, ending |-> <<"\r", "\n">>]

\* "translate chinese strings:" and the like: no pattern matches.
OtherLine ==
    [kind |-> "other", prefix |-> <<>>, text |-> <<"t", ":">>, suffix |-> <<>>,
     ending |-> <<"\n">>]

BlankLine ==
    [kind |-> "skip", prefix |-> <<>>, text |-> <<>>, suffix |-> <<>>,
     ending |-> <<"\n">>]

\* A comment line that COMMENT_SAY_RE does not match.
HashLine ==
    [kind |-> "hash", prefix |-> <<>>, text |-> <<"#", " ", "t">>, suffix |-> <<>>,
     ending |-> <<"\n">>]

\* The lines of the inputs of the extractor harness: every kind, closing
\* lines whose text is the pending source, another text, or a leftover token.
ScanLines ==
    { CommentLine(<<"a">>), OldLine(<<"a">>),
      NewLineOf(<<"a">>), NewLineOf(<<"x">>), NewLineOf(Token(0)),
      SayLine(<<"a">>), SayLine(<<"x">>),
      OtherLine, BlankLine, HashLine }

\* Largest number of lines of an input of the extractor harness.
MaxScan == 3

\* Source texts of the files of a run; one holds a placeholder.
SrcA == <<"a">>
SrcB == <<"b">>
SrcP == <<"[", "n", "]">>

\* The file lists a run is started on: a dialogue block; a say line without a
\* source line above it; a strings block of two texts followed by a second
\* file; a file whose line is translated already, followed by an untranslated
\* one.
FileChoices ==
    { << <<CommentLine(SrcA), SayLine(SrcA)>> >>,
      << <<SayLine(SrcA)>> >>,
      << <<OtherLine, OldLine(SrcA), NewLineOf(SrcA), BlankLine,
           OldLine(SrcP), NewLineOf(SrcP)>>,
         <<CommentLine(SrcB), SayLine(SrcB)>> >>,
      << <<CommentLine(SrcA), SayLine(<<"x">>)>>,
         <<OldLine(SrcB), NewLineOf(SrcB)>> >> }

\* What the backend may answer for one text: a translation, another
\* translation, a translation that kept the first placeholder token, a blank.
ReplyPool == { <<"x">>, <<"y">>, Token(0) \o <<"x">>, <<" ">> }

\* By how many items a chat reply may exceed the batch.
MaxExtra == 1

\* The translators of a run.
RunOpenAI ==
    [kind |-> "openai", base_url |-> <<"h">>, model |-> <<"m">>,
     source_lang |-> <<>>, target |-> <<"t">>]

RunDeepl ==
    [kind |-> "deepl", base_url |-> <<"h">>, model |-> <<>>,
     source_lang |-> <<>>, target |-> <<"t">>]

\* --batch-size and --max-lines of a run.
BatchSizes == {1, 2}
MaxLinesChoices == {0, 1}

(***************************************************************************)
(* Parts of the state a specification does not use stay at these values.   *)
(***************************************************************************)

PureIdle ==
    /\ fpc = "idle"
    /\ fin = None
    /\ fout = None

CacheIdle ==
    /\ entries = NoEntries
    /\ diskCache = NoEntries
    /\ stored = {}
    /\ nsets = 0

RunIdle ==
    /\ cfg = None
    /\ backend = None
    /\ files = <<>>
    /\ run = 0
    /\ pc = "idle"
    /\ fi = 0
    /\ lines = <<>>
    /\ jobs = <<>>
    /\ results = NoEntries
    /\ batches = <<>>
    /\ bi = 0
    /\ tm = <<>>
    /\ fbi = 0
    /\ quota_hit = FALSE
    /\ stats = None
    /\ total = None
    /\ nreq = 0
    /\ quotaSeen = FALSE
    /\ quotaLost = FALSE
    /\ resolved = NoEntries
    /\ full1 = {}

(***************************************************************************)
(* Harness of the placeholder codec: mask a text, then restore it.         *)
(***************************************************************************)

MaskInit ==
    /\ fpc = "mask.in"
    /\ fin \in MaskInputs
    /\ fout = None
    /\ CacheIdle
    /\ RunIdle

MaskStep ==
    /\ fpc = "mask.in"
    /\ fout' = MaskPlaceholders(fin)
    /\ fpc' = "mask.masked"
    /\ UNCHANGED <<fin, cacheVars, runVars>>

RestoreStep ==
    /\ fpc = "mask.masked"
    /\ fout' = [text |-> fout.text, mapping |-> fout.mapping,
                restored |-> RestorePlaceholders(fout.text, fout.mapping)]
    /\ fpc' = "mask.restored"
    /\ UNCHANGED <<fin, cacheVars, runVars>>

MaskNext == MaskStep \/ RestoreStep

SpecMask == MaskInit /\ [][MaskNext]_vars

(***************************************************************************)
(* Harness of normalize_translation_count.                                 *)
(***************************************************************************)

NormInit ==
    /\ fpc = "norm.in"
    /\ fin \in NormInputs
    /\ fout = None
    /\ CacheIdle
    /\ RunIdle

NormStep ==
    /\ fpc = "norm.in"
    /\ fout' = NormalizeTranslationCount(fin.result, fin.sources)
    /\ fpc' = "norm.out"
    /\ UNCHANGED <<fin, cacheVars, runVars>>

NormNext == NormStep

SpecNorm == NormInit /\ [][NormNext]_vars

(***************************************************************************)
(* Harness of the provider keys: build the keys of two configurations,     *)
(* cache a translation under the first and look it up under the second.    *)
(***************************************************************************)

KeyInit ==
    /\ fpc = "key.in"
    /\ fin \in [a : KeyConfigs, b : KeyConfigs]
    /\ fout = None
    /\ CacheIdle
    /\ RunIdle

KeyStep ==
    /\ fpc = "key.in"
    /\ LET ka  == ProviderKey(fin.a)
           kb  == ProviderKey(fin.b)
           src == <<"a">>
       IN  fout' = [ka |-> ka, kb |-> kb,
                    got |-> CacheGet(CacheSet(NoEntries, ka, src, <<"x">>), kb, src)]
    /\ fpc' = "key.out"
    /\ UNCHANGED <<fin, cacheVars, runVars>>

KeyNext == KeyStep

SpecKey == KeyInit /\ [][KeyNext]_vars

(***************************************************************************)
(* Harness of the translation cache: a process loads the cache file, then  *)
(* sets, looks up and saves in any order.                                  *)
(***************************************************************************)

CacheInit ==
    /\ diskCache \in LoadedCaches
    /\ entries = LoadCache(diskCache)
    /\ stored = { <<diskCache[k].provider, diskCache[k].source,
                    diskCache[k].translation>> : k \in DOMAIN diskCache }
    /\ nsets = 0
    /\ fpc = "cache"
    /\ fin = None
    /\ fout = None
    /\ RunIdle

CacheSetOp ==
    /\ nsets < MaxSets
    /\ \E p \in CacheProviders, s \in CacheSources, t \in CacheTranslations :
          /\ entries' = CacheSet(entries, p, s, t)
          /\ stored' = stored \cup {<<p, s, t>>}
    /\ nsets' = nsets + 1
    /\ UNCHANGED <<pureVars, diskCache, runVars>>

CacheGetOp ==
    /\ \E p \in CacheProviders, s \in CacheSources :
          /\ fin' = <<p, s>>
          /\ fout' = CacheGet(entries, p, s)
    /\ UNCHANGED <<fpc, cacheVars, runVars>>

\* TranslationCache.save: the whole entry map replaces the file's.
CacheSaveOp ==
    /\ diskCache' = SavedFile(entries, diskCache)
    /\ UNCHANGED <<pureVars, entries, stored, nsets, runVars>>

CacheNext == CacheSetOp \/ CacheGetOp \/ CacheSaveOp

SpecCache == CacheInit /\ [][CacheNext]_vars

(***************************************************************************)
(* Harness of the response parser.                                         *)
(***************************************************************************)

ParseInit ==
    /\ fpc = "parse.in"
    /\ fin \in ParseResponses
    /\ fout = None
    /\ CacheIdle
    /\ RunIdle

ParseStep ==
    /\ fpc = "parse.in"
    /\ fout' = ExtractFirstJsonArray(ResponseText(fin))
    /\ fpc' = "parse.out"
    /\ UNCHANGED <<fin, cacheVars, runVars>>

ParseNext == ParseStep

SpecParse == ParseInit /\ [][ParseNext]_vars

(***************************************************************************)
(* Harness of the line job extractor: the loop of collect_line_jobs, one   *)
(* line per step; fout holds the number of lines done, the two pending     *)
(* slots and the jobs.                                                     *)
(***************************************************************************)

ScanInit ==
    /\ fpc = "scan"
    /\ fin \in [lines : SeqsUpTo(ScanLines, MaxScan), overwrite : BOOLEAN]
    /\ fout = [i |-> 0, pending_old |-> None, pending_comment |-> None,
               jobs |-> <<>>]
    /\ CacheIdle
    /\ RunIdle

ScanStep ==
    /\ fpc = "scan"
    /\ fout.i < Len(fin.lines)
    /\ LET i    == fout.i + 1
           line == fin.lines[i]
           sl   == SlotsAfter(line, fout.pending_old, fout.pending_comment)
       IN  fout' = [i |-> i,
                    pending_old |-> sl.pending_old,
                    pending_comment |-> sl.pending_comment,
                    jobs |-> JobsAfter(line, i, fin.overwrite, fout.pending_old,
                                       fout.pending_comment, fout.jobs)]
    /\ UNCHANGED <<fpc, fin, cacheVars, runVars>>

ScanNext == ScanStep

SpecScan == ScanInit /\ [][ScanNext]_vars

(***************************************************************************)
(* Harness of DeepLTranslator.translate_batch: one attempt per step; fout  *)
(* holds the attempt the loop is at, the requests sent, the sleeps made    *)
(* and the seconds slept, whether a response indicated quota exhaustion,   *)
(* the last error message and how the call ended.                          *)
(***************************************************************************)

DeeplInit ==
    /\ fpc = "deepl"
    /\ fin \in [retries : 0..MaxRetries, n : 1..MaxTexts]
    /\ fout = [attempt |-> 1, requests |-> 0, sleeps |-> 0, slept |-> 0,
               quota_signal |-> FALSE, last_err |-> None, status |-> "running",
               returned |-> 0]
    /\ CacheIdle
    /\ RunIdle

\* One pass of the loop body: the request and what follows its response.
DeeplAttempt ==
    /\ fpc = "deepl"
    /\ fout.status = "running"
    /\ fout.attempt <= fin.retries
    /\ \E resp \in DeeplResponses(fin.n) :
          LET message == AttemptMessage(resp, fin.n)
              quota   == resp.status = 456
                            \/ Find(resp.body, 1, <<"Q", "u", "o", "t", "a", " ", "e", "x", "c", "e", "e", "d", "e", "d">>) # 0
              after   == AfterFailure(message, fout.attempt, fin.retries)
          IN  IF message = None
              THEN fout' = [fout EXCEPT !.requests = @ + 1, !.status = "returned",
                                        !.returned = resp.count]
              ELSE fout' = [fout EXCEPT
                               !.requests = @ + 1,
                               !.quota_signal = quota,
                               !.status = IF after.raise = "none" THEN "running"
                                          ELSE after.raise,
                               !.last_err = IF after.raise = "none" THEN message
                                            ELSE @,
                               !.sleeps = IF after.sleep > 0 THEN @ + 1 ELSE @,
                               !.slept = @ + after.sleep,
                               !.attempt = IF after.raise = "none" THEN @ + 1
                                           ELSE @]
    /\ UNCHANGED <<fpc, fin, cacheVars, runVars>>

\* The loop is over without a return: RuntimeError is raised.
DeeplGiveUp ==
    /\ fpc = "deepl"
    /\ fout.status = "running"
    /\ fout.attempt > fin.retries
    /\ fout' = [fout EXCEPT !.status = "RuntimeError"]
    /\ UNCHANGED <<fpc, fin, cacheVars, runVars>>

DeeplNext ==
    \/ DeeplAttempt
    \/ DeeplGiveUp

SpecDeepl == DeeplInit /\ [][DeeplNext]_vars

(***************************************************************************)
(* Harness of OpenAITranslator.translate_batch: one pass of the retry loop *)
(* per step, several calls in one process.  fout holds WARN_ONCE_KEYS, how *)
(* often each warning was printed and how often its condition occurred,    *)
(* and for the call under way the attempt the loop is at, the events so    *)
(* far (requests, boosted requests, sleeps), timeout_boost_used, last_err, *)
(* how the call ended and the list it returned.                            *)
(***************************************************************************)

\* What run_request may end in, for every text list of the harness.
ChatOutcomes ==
    [t \in ChatTexts |-> {RunRequest(r, t) : r \in ChatResponses}]

\* The state of a call that has not sent a request.
ChatCallStart(keys, shown, occurred, calls) ==
    [keys |-> keys, shown |-> shown, occurred |-> occurred, calls |-> calls,
     attempt |-> 1, log |-> <<>>, timeout_boost_used |-> FALSE,
     last_err |-> None, status |-> "running", out |-> <<>>]

ChatInit ==
    /\ fpc = "chat"
    /\ fin \in [retries : 0..MaxRetries, texts : ChatTexts]
    /\ fout = ChatCallStart({}, [k \in WarnKeys |-> 0], [k \in WarnKeys |-> 0], 1)
    /\ CacheIdle
    /\ RunIdle

\* One pass of the loop body: the request (which ends as first), the boosted
\* request (which ends as second) when the failure is the first timeout, the
\* sleep before the next attempt.
ChatAttempt ==
    /\ fpc = "chat"
    /\ fout.status = "running"
    /\ fout.attempt <= fin.retries
    /\ \E ends \in [{1, 2} -> ChatOutcomes[fin.texts]] :
          LET first == ends[1]
              second == ends[2]
              Warned(st, key) ==
                  IF key = NoWarn THEN st
                  ELSE [st EXCEPT
                           !.keys = WarnOnce(st.keys, key).keys,
                           !.shown[key] = IF WarnOnce(st.keys, key).shown
                                          THEN @ + 1 ELSE @,
                           !.occurred[key] = @ + 1]
              Event(ev, message, secs) ==
                  [ev |-> ev, message |-> message,
                   timeout |-> message # None
                                  /\ BoostWanted(message, FALSE),
                   secs |-> secs]
              After(st, events, final) ==
                  LET secs == Backoff(fout.attempt, fin.retries)
                  IN  IF final.message = None
                      THEN [Warned(st, final.warn) EXCEPT
                               !.log = @ \o events,
                               !.status = "returned",
                               !.out = final.out]
                      ELSE [st EXCEPT
                               !.log = @ \o events
                                         \o (IF secs > 0
                                             THEN <<Event("sleep", None, secs)>>
                                             ELSE <<>>),
                               !.last_err = final.message,
                               !.attempt = @ + 1]
          IN  IF first.message # None
                 /\ BoostWanted(first.message, fout.timeout_boost_used)
              THEN fout' = After([Warned(fout, "openai_timeout_boost")
                                    EXCEPT !.timeout_boost_used = TRUE],
                                 <<Event("request", first.message, 0),
                                   Event("boosted", second.message, 0)>>,
                                 second)
              ELSE fout' = After(fout, <<Event("request", first.message, 0)>>,
                                 first)
    /\ UNCHANGED <<fpc, fin, cacheVars, runVars>>

\* The end of the loop with the quota test of the form-POST variant.
ChatGiveUpQuota ==
    /\ fpc = "chat"
    /\ fout.status = "running"
    /\ fout.attempt > fin.retries
    /\ fout' = [fout EXCEPT
                  !.status = IF fout.last_err = None THEN "RuntimeError"
                             ELSE IF AfterFailure(fout.last_err, 1, 1).raise = "none"
                             THEN "RuntimeError" ELSE "QuotaExceededError"]
    /\ UNCHANGED <<fpc, fin, cacheVars, runVars>>

\* The loop is over without a return: RuntimeError is raised with last_err.
ChatGiveUp ==
    /\ fpc = "chat"
    /\ fout.status = "running"
    /\ fout.attempt > fin.retries
    /\ fout' = [fout EXCEPT !.status = "RuntimeError"]
    /\ UNCHANGED <<fpc, fin, cacheVars, runVars>>

\* translate_unique_texts calls translate_batch again.
ChatNewCall ==
    /\ fpc = "chat"
    /\ fout.status # "running"
    /\ fout.calls < MaxCalls
    /\ fout' = ChatCallStart(fout.keys, fout.shown, fout.occurred, fout.calls + 1)
    /\ UNCHANGED <<fpc, fin, cacheVars, runVars>>

ChatNext ==
    \/ ChatAttempt
    \/ ChatGiveUp
    \/ ChatNewCall

SpecChat == ChatInit /\ [][ChatNext]_vars

(***************************************************************************)
(* One call of translate_batch of either variant, every step of which is   *)
(* taken eventually.                                                       *)
(***************************************************************************)

TranslateInit ==
    \/ ChatInit
    \/ DeeplInit

TranslateNext ==
    \/ ChatAttempt
    \/ ChatGiveUp
    \/ DeeplAttempt
    \/ DeeplGiveUp

SpecTranslate ==
    TranslateInit /\ [][TranslateNext]_vars /\ WF_vars(TranslateNext)

(***************************************************************************)
(* Harness of the timeouts of the chat variant: the adaptive timeout of a  *)
(* call, then the boosted timeout of its request after a timeout.          *)
(***************************************************************************)

TimeoutInit ==
    /\ fpc = "timeout.in"
    /\ fin \in [timeout : (-1)..MaxBase,
                texts : SeqsUpTo({TextOfLen(n) : n \in TimeoutLens}, MaxTexts)]
    /\ fout = None
    /\ CacheIdle
    /\ RunIdle

AdaptiveStep ==
    /\ fpc = "timeout.in"
    /\ fout' = [adaptive |-> ComputeAdaptiveTimeout(fin.timeout, fin.texts),
                boosted |-> 0]
    /\ fpc' = "timeout.adaptive"
    /\ UNCHANGED <<fin, cacheVars, runVars>>

BoostStep ==
    /\ fpc = "timeout.adaptive"
    /\ fout' = [fout EXCEPT !.boosted = BoostedTimeout(fin.timeout, fout.adaptive)]
    /\ fpc' = "timeout.boosted"
    /\ UNCHANGED <<fin, cacheVars, runVars>>

TimeoutNext ==
    \/ AdaptiveStep
    \/ BoostStep

SpecTimeout == TimeoutInit /\ [][TimeoutNext]_vars

(***************************************************************************)
(* A run of main() over the tl files, and a second run of the program on   *)
(* the files and the cache file the first one left.                        *)
(***************************************************************************)

\* The lists translate_batch(texts) may return normally.  The chat variant
\* normalises whatever array it parsed to the length of texts; the form-POST
\* variant returns the translations only when there are as many as texts.
Parsed(be, n) ==
    IF be.mode = "fixed" THEN { <<be.reply>> }
    ELSE SeqsUpTo(ReplyPool, n + MaxExtra)

TranslateOk(provider, be, texts) ==
    IF provider.kind = "openai"
    THEN { NormalizeTranslationCount(parsed, texts).out :
              parsed \in Parsed(be, Len(texts)) }
    ELSE { parsed \in Parsed(be, Len(texts)) : Len(parsed) = Len(texts) }

\* Only the form-POST variant raises QuotaExceededError.
CanRaiseQuota == cfg.provider.kind = "deepl" /\ backend.mode = "any"

CanFail == backend.mode = "any"

\* The position of main() when its loop moves to file f.
LoopAt(f) == IF f > Len(files) THEN "done" ELSE "main"

\* The local state of apply_translations_to_file, outside a call.
NoFile ==
    /\ lines' = <<>>
    /\ jobs' = <<>>
    /\ results' = NoEntries
    /\ batches' = <<>>
    /\ bi' = 0
    /\ tm' = <<>>
    /\ fbi' = 0
    /\ quota_hit' = FALSE
    /\ stats' = ZeroStats
    /\ resolved' = NoEntries

RunInitWith(fileSets, backends, lineseps) ==
    /\ PureIdle
    /\ stored = {}
    /\ nsets = 0
    /\ cfg \in [provider : {RunOpenAI, RunDeepl}, overwrite : BOOLEAN,
                stop_on_quota : BOOLEAN, batch_size : BatchSizes,
                max_lines : MaxLinesChoices, linesep : lineseps]
    /\ backend \in backends
    /\ files \in fileSets
    /\ diskCache = NoEntries
    /\ entries = LoadCache(diskCache)
    /\ run = 1
    /\ pc = "main"
    /\ fi = 1
    /\ lines = <<>>
    /\ jobs = <<>>
    /\ results = NoEntries
    /\ batches = <<>>
    /\ bi = 0
    /\ tm = <<>>
    /\ fbi = 0
    /\ quota_hit = FALSE
    /\ stats = ZeroStats
    /\ total = ZeroStats
    /\ nreq = 0
    /\ quotaSeen = FALSE
    /\ quotaLost = FALSE
    /\ resolved = NoEntries
    /\ full1 = {}

\* os.linesep of the platform of the runs.
PosixLineSep == <<"\n">>

WindowsLineSep == <<"\r", "\n">>

RunInit == RunInitWith(FileChoices, {[mode |-> "any"]}, {PosixLineSep})

\* apply_translations_to_file up to the first backend request: read the
\* file, collect the jobs, look the unique sources up in the cache.
OpenFile ==
    /\ pc = "main"
    /\ LET ls     == ReadText(files[fi])
           found  == CollectLineJobs(ls, cfg.overwrite)
           js     == IF cfg.max_lines > 0 /\ Len(found) > cfg.max_lines
                     THEN SubSeq(found, 1, cfg.max_lines) ELSE found
           unique == SortTexts({js[k].source_text : k \in 1..Len(js)})
           key    == ProviderKey(cfg.provider)
           miss   == CacheMisses(unique, entries, key)
       IN  /\ lines' = ls
           /\ jobs' = js
           /\ results' = IF js = <<>> THEN NoEntries
                         ELSE CacheHits(unique, entries, key)
           /\ batches' = IF js = <<>> THEN <<>> ELSE Chunked(miss, cfg.batch_size)
           /\ bi' = IF js = <<>> \/ miss = <<>> THEN 0 ELSE 1
           /\ pc' = IF js = <<>> THEN "fileEnd"
                    ELSE IF miss = <<>> THEN "apply" ELSE "batch"
    /\ stats' = ZeroStats
    /\ UNCHANGED <<pureVars, cacheVars, cfg, backend, files, run, fi, tm, fbi,
                   quota_hit, total, nreq, quotaSeen, quotaLost, resolved, full1>>

\* A file-level error that ends the loop over the files.
FileFailedAborts ==
    /\ total' = [total EXCEPT !.failed = @ + 1]
    /\ diskCache' = SavedFile(entries, diskCache)
    /\ fi' = fi + 1
    /\ pc' = "done"
    /\ quotaLost' = (quotaLost \/ quota_hit)
    /\ NoFile
    /\ UNCHANGED <<pureVars, entries, stored, nsets, cfg, backend, files, run,
                   nreq, quotaSeen, full1>>

\* main(): a file-level error is counted, the cache is saved and the loop
\* goes on with the next file.
FileFailed ==
    /\ total' = [total EXCEPT !.failed = @ + 1]
    /\ diskCache' = SavedFile(entries, diskCache)
    /\ fi' = fi + 1
    /\ pc' = LoopAt(fi + 1)
    /\ quotaLost' = (quotaLost \/ quota_hit)
    /\ NoFile
    /\ UNCHANGED <<pureVars, entries, stored, nsets, cfg, backend, files, run,
                   nreq, quotaSeen, full1>>

\* path.read_text raises.
ReadFail ==
    /\ pc = "main"
    /\ CanFail
    /\ FileFailed

\* translator.translate_batch(masked_batch) returns.
BatchOk ==
    /\ pc = "batch"
    /\ \E out \in TranslateOk(cfg.provider, backend, MaskedBatch(batches[bi])) :
          tm' = [k \in 1..Len(batches[bi]) |->
                    IF k <= Len(out) THEN out[k] ELSE None]
    /\ pc' = "record"
    /\ nreq' = nreq + 1
    /\ UNCHANGED <<pureVars, cacheVars, cfg, backend, files, run, fi, lines, jobs,
                   results, batches, bi, fbi, quota_hit, stats, total, quotaSeen,
                   quotaLost, resolved, full1>>

\* translator.translate_batch(masked_batch) raises QuotaExceededError.
BatchQuota ==
    /\ pc = "batch"
    /\ CanRaiseQuota
    /\ quota_hit' = TRUE
    /\ quotaSeen' = TRUE
    /\ diskCache' = SavedFile(entries, diskCache)
    /\ pc' = "apply"
    /\ nreq' = nreq + 1
    /\ UNCHANGED <<pureVars, entries, stored, nsets, cfg, backend, files, run, fi,
                   lines, jobs, results, batches, bi, tm, fbi, stats, total,
                   quotaLost, resolved, full1>>

\* A failed batch that is given up without the single requests.
BatchFailNoFallback ==
    /\ pc = "batch"
    /\ CanFail
    /\ tm' = [k \in 1..Len(batches[bi]) |-> None]
    /\ fbi' = 0
    /\ pc' = "record"
    /\ nreq' = nreq + 1
    /\ UNCHANGED <<pureVars, cacheVars, cfg, backend, files, run, fi, lines, jobs,
                   results, batches, bi, quota_hit, stats, total, quotaSeen,
                   quotaLost, resolved, full1>>

\* translator.translate_batch(masked_batch) raises another error.
BatchFail ==
    /\ pc = "batch"
    /\ CanFail
    /\ tm' = [k \in 1..Len(batches[bi]) |-> None]
    /\ fbi' = 1
    /\ pc' = "fallback"
    /\ nreq' = nreq + 1
    /\ UNCHANGED <<pureVars, cacheVars, cfg, backend, files, run, fi, lines, jobs,
                   results, batches, bi, quota_hit, stats, total, quotaSeen,
                   quotaLost, resolved, full1>>

\* The fallback's translate_batch([single]) returns.
SingleOk ==
    /\ pc = "fallback"
    /\ \E out \in TranslateOk(cfg.provider, backend,
                              <<MaskedBatch(batches[bi])[fbi]>>) :
          tm' = IF out # <<>> THEN [tm EXCEPT ![fbi] = out[1]] ELSE tm
    /\ fbi' = fbi + 1
    /\ pc' = IF fbi = Len(batches[bi]) THEN "record" ELSE "fallback"
    /\ nreq' = nreq + 1
    /\ UNCHANGED <<pureVars, cacheVars, cfg, backend, files, run, fi, lines, jobs,
                   results, batches, bi, quota_hit, stats, total, quotaSeen,
                   quotaLost, resolved, full1>>

\* The fallback's translate_batch([single]) raises QuotaExceededError.
SingleQuota ==
    /\ pc = "fallback"
    /\ CanRaiseQuota
    /\ quota_hit' = TRUE
    /\ quotaSeen' = TRUE
    /\ pc' = "record"
    /\ nreq' = nreq + 1
    /\ UNCHANGED <<pureVars, cacheVars, cfg, backend, files, run, fi, lines, jobs,
                   results, batches, bi, tm, fbi, stats, total, quotaLost,
                   resolved, full1>>

\* The fallback's translate_batch([single]) raises another error.
SingleFail ==
    /\ pc = "fallback"
    /\ CanFail
    /\ fbi' = fbi + 1
    /\ pc' = IF fbi = Len(batches[bi]) THEN "record" ELSE "fallback"
    /\ nreq' = nreq + 1
    /\ UNCHANGED <<pureVars, cacheVars, cfg, backend, files, run, fi, lines, jobs,
                   results, batches, bi, tm, quota_hit, stats, total, quotaSeen,
                   quotaLost, resolved, full1>>

\* The rest of the loop body over the batches: store every item of
\* translated_masked, save the cache, leave the loop on quota_hit.
Record ==
    /\ pc = "record"
    /\ LET key == ProviderKey(cfg.provider)
           rec == RecordBatch(batches[bi], tm, results, entries, key)
           got == {batches[bi][k] : k \in {j \in 1..Len(tm) : tm[j] # None}}
           sent == [t \in got |->
                      LET k == CHOOSE j \in 1..Len(tm) : batches[bi][j] = t
                      IN  ResolveItem(t, tm[k], MaskPlaceholders(t).mapping)]
       IN  /\ results' = rec.results
           /\ entries' = rec.entries
           /\ diskCache' = SavedFile(rec.entries, diskCache)
           /\ stored' = stored \cup {<<key, t, sent[t]>> : t \in got}
           /\ resolved' = [t \in DOMAIN resolved \cup got |->
                              IF t \in got THEN sent[t] ELSE resolved[t]]
    /\ bi' = IF quota_hit \/ bi = Len(batches) THEN bi ELSE bi + 1
    /\ pc' = IF quota_hit \/ bi = Len(batches) THEN "apply" ELSE "batch"
    /\ tm' = <<>>
    /\ fbi' = 0
    /\ UNCHANGED <<pureVars, nsets, cfg, backend, files, run, fi, lines, jobs,
                   batches, quota_hit, stats, total, nreq, quotaSeen, quotaLost,
                   full1>>

\* The rest of apply_translations_to_file: rewrite the job lines and write the
\* file when a line changed.
ApplyOk ==
    /\ pc = "apply"
    /\ LET app == ApplyJobs(jobs, lines, results)
       IN  /\ lines' = app.lines
           /\ stats' = [app.stats EXCEPT !.quota_exceeded = quota_hit]
           /\ files' = IF app.stats.changed
                       THEN [files EXCEPT ![fi] = WriteText(app.lines, cfg.linesep)]
                       ELSE files
    /\ pc' = "fileEnd"
    /\ UNCHANGED <<pureVars, cacheVars, cfg, backend, run, fi, jobs, results,
                   batches, bi, tm, fbi, quota_hit, total, nreq, quotaSeen,
                   quotaLost, resolved, full1>>

\* path.write_text raises.
WriteFail ==
    /\ pc = "apply"
    /\ CanFail
    /\ ApplyJobs(jobs, lines, results).stats.changed
    /\ FileFailed

\* main() after apply_translations_to_file returned: add the statistics,
\* save the cache, stop on quota or go on with the next file.
FileEnd ==
    /\ pc = "fileEnd"
    /\ total' = [total EXCEPT !.translated = @ + stats.translated,
                              !.skipped = @ + stats.skipped,
                              !.failed = @ + stats.failed,
                              !.deferred = @ + stats.deferred,
                              !.changed = @ \/ stats.changed]
    /\ diskCache' = SavedFile(entries, diskCache)
    /\ fi' = IF StopAfterFile(stats, cfg.stop_on_quota) THEN fi ELSE fi + 1
    /\ pc' = IF StopAfterFile(stats, cfg.stop_on_quota) THEN "done"
             ELSE LoopAt(fi + 1)
    /\ full1' = IF /\ run = 1
                   /\ stats.deferred = 0
                   /\ ~stats.quota_exceeded
                   /\ (cfg.max_lines = 0 \/ Len(jobs) < cfg.max_lines)
                THEN full1 \cup {fi} ELSE full1
    /\ NoFile
    /\ UNCHANGED <<pureVars, entries, stored, nsets, cfg, backend, files, run,
                   nreq, quotaSeen, quotaLost>>

\* The program is run again: overwrite or resume mode, the cache loaded from
\* the cache file, the files as the first run left them.
StartRun2 ==
    /\ pc = "done"
    /\ run = 1
    /\ run' = 2
    /\ \E ow \in BOOLEAN : cfg' = [cfg EXCEPT !.overwrite = ow]
    /\ entries' = LoadCache(diskCache)
    /\ fi' = 1
    /\ pc' = LoopAt(1)
    /\ total' = ZeroStats
    /\ nreq' = 0
    /\ quotaSeen' = FALSE
    /\ quotaLost' = FALSE
    /\ NoFile
    /\ UNCHANGED <<pureVars, diskCache, stored, nsets, backend, files, full1>>

Next ==
    \/ OpenFile
    \/ ReadFail
    \/ BatchOk
    \/ BatchQuota
    \/ BatchFail
    \/ SingleOk
    \/ SingleQuota
    \/ SingleFail
    \/ Record
    \/ ApplyOk
    \/ WriteFail
    \/ FileEnd
    \/ StartRun2

Spec == RunInit /\ [][Next]_vars

(***************************************************************************)
(* A run that the operating system kills, and the run started after it.    *)
(***************************************************************************)

\* The process is killed outside cache.save(): the cache file stays as the
\* last save left it.
Kill ==
    /\ pc \in {"main", "batch", "fallback", "apply", "fileEnd"}
    /\ run = 1
    /\ pc' = "done"
    /\ NoFile
    /\ UNCHANGED <<pureVars, cacheVars, cfg, backend, files, run, fi, total, nreq,
                   quotaSeen, quotaLost, full1>>

\* The process is killed inside the cache.save() that follows a batch, after
\* the batch's items were set: path.write_text has not opened the file, has
\* written a part of the JSON text, or has written all of it.
KillInSave ==
    /\ pc = "record"
    /\ run = 1
    /\ LET rec == RecordBatch(batches[bi], tm, results, entries,
                              ProviderKey(cfg.provider))
       IN  diskCache' \in {diskCache, TornFile, SavedFile(rec.entries, diskCache)}
    /\ pc' = "done"
    /\ NoFile
    /\ UNCHANGED <<pureVars, entries, stored, nsets, cfg, backend, files, run, fi,
                   total, nreq, quotaSeen, quotaLost, full1>>

\* Two files, the first with two texts to translate.
CrashFiles ==
    << <<OldLine(SrcA), NewLineOf(SrcA), OldLine(SrcB), NewLineOf(SrcB)>>,
       <<CommentLine(SrcP), SayLine(SrcP)>> >>

CrashInit == RunInitWith({CrashFiles}, {[mode |-> "any"]}, {PosixLineSep})

CrashNext ==
    \/ OpenFile
    \/ BatchOk
    \/ BatchFail
    \/ SingleOk
    \/ SingleFail
    \/ Record
    \/ ApplyOk
    \/ FileEnd
    \/ Kill
    \/ KillInSave
    \/ StartRun2

SpecCrash == CrashInit /\ [][CrashNext]_vars

(***************************************************************************)
(* Runs over one file whose lines all end the same way, on either          *)
(* platform.                                                               *)
(***************************************************************************)

\* A strings block: a text to translate and a text that is translated.
ApplyFile ==
    <<OtherLine, OldLine(SrcA), NewLineOf(SrcA), OldLine(SrcB),
      NewLineOf(<<"x">>)>>

\* The file with every line ended by e.
EndedBy(file, e) == [i \in 1..Len(file) |-> [file[i] EXCEPT !.ending = e]]

ApplyInit ==
    RunInitWith({ <<EndedBy(ApplyFile, e)>> : e \in {PosixLineSep, WindowsLineSep} },
                {[mode |-> "any"]}, {PosixLineSep, WindowsLineSep})

ApplyNext ==
    \/ OpenFile
    \/ BatchOk
    \/ Record
    \/ ApplyOk
    \/ FileEnd

SpecApply == ApplyInit /\ [][ApplyNext]_vars

(***************************************************************************)
(* Runs over a file whose text holds a backslash escape, and over a file   *)
(* whose text holds none.                                                  *)
(***************************************************************************)

\* The quoted text a, backslash, n, as it stands between the quotes.
SrcE == <<"a", "\\", "n">>

EscapeFiles ==
    { << <<CommentLine(SrcE), SayLine(SrcE)>> >>,
      << <<CommentLine(SrcA), SayLine(SrcA)>> >> }

EscapeInit == RunInitWith(EscapeFiles, {[mode |-> "any"]}, {PosixLineSep})

SpecEscape == EscapeInit /\ [][ApplyNext]_vars

(***************************************************************************)
(* Two runs over one file: a file of two texts, a file whose text starts   *)
(* with a blank, a file whose text holds a synthetic token left by an      *)
(* earlier run.                                                            *)
(***************************************************************************)

\* The quoted text blank, a.
SrcS == <<" ", "a">>

\* The quoted text __RNPH_0__a.
SrcT == Token(0) \o <<"a">>

PaddedFiles ==
    { << <<OldLine(SrcA), NewLineOf(SrcA), OldLine(SrcB), NewLineOf(SrcB)>> >>,
      << <<CommentLine(SrcS), SayLine(SrcS)>> >>,
      << <<SayLine(SrcT)>> >> }

PaddedInit == RunInitWith(PaddedFiles, {[mode |-> "any"]}, {PosixLineSep})

PaddedNext ==
    \/ OpenFile
    \/ BatchOk
    \/ Record
    \/ ApplyOk
    \/ FileEnd
    \/ StartRun2

SpecPadded == PaddedInit /\ [][PaddedNext]_vars

(***************************************************************************)
(* Runs over three files that share a source text; the first holds two     *)
(* texts and two job lines of the same text, the third holds the two texts *)
(* in the other order.                                                     *)
(***************************************************************************)

FallbackFiles ==
    << <<OldLine(SrcA), NewLineOf(SrcA), OldLine(SrcB), NewLineOf(SrcB),
         CommentLine(SrcA), SayLine(SrcA)>>,
       <<CommentLine(SrcA), SayLine(SrcA)>>,
       <<OldLine(SrcB), NewLineOf(SrcB), OldLine(SrcA), NewLineOf(SrcA)>> >>

FallbackInit == RunInitWith({FallbackFiles}, {[mode |-> "any"]}, {PosixLineSep})

FallbackNext ==
    \/ OpenFile
    \/ BatchOk
    \/ BatchQuota
    \/ BatchFail
    \/ SingleOk
    \/ SingleQuota
    \/ SingleFail
    \/ Record
    \/ ApplyOk
    \/ FileEnd

SpecFallback == FallbackInit /\ [][FallbackNext]_vars

(***************************************************************************)
(* The calls of the chat variant next to the runs over the three files:    *)
(* what a call may raise, and what a run does with it.                     *)
(***************************************************************************)

ChatRunInit ==
    \/ ChatInit
    \/ FallbackInit

ChatRunNext ==
    \/ ChatNext
    \/ FallbackNext

SpecChatRun == ChatRunInit /\ [][ChatRunNext]_vars

(***************************************************************************)
(* The desktop front-end (app1.py): the pipeline task run_pipeline, the    *)
(* stop handler on_stop_click and the child process, interleaved at the    *)
(* awaits of the event loop.  fout holds process (the handle or None), the *)
(* child (running, its output closed, exited: returncode set), the         *)
(* position of the task and of the stop handler, is_running,               *)
(* stop_requested, whether the handler raised AttributeError, whether it   *)
(* called kill, and the numbers of runs, stop clicks and lines read.       *)
(***************************************************************************)

\* Largest number of runs started from the window.
MaxRuns == 2

\* Largest number of clicks on the stop button.
MaxClicks == 2

\* Largest number of output lines of a child.
MaxOutput == 2

AppInit ==
    /\ fpc = "app"
    /\ fin = None
    /\ fout = [process |-> "None", child |-> "none", task |-> "idle",
               stopper |-> "idle", is_running |-> FALSE,
               stop_requested |-> FALSE, raised |-> FALSE, killed |-> FALSE,
               runs |-> 0, clicks |-> 0, output |-> 0]
    /\ CacheIdle
    /\ RunIdle

\* on_run_click / on_quick_fix_run_click
RunClick ==
    /\ fpc = "app"
    /\ ~fout.is_running
    /\ fout.runs < MaxRuns
    /\ fout' = [fout EXCEPT !.stop_requested = FALSE, !.is_running = TRUE,
                            !.task = "create", !.runs = @ + 1]
    /\ UNCHANGED <<fpc, fin, cacheVars, runVars>>

\* run_pipeline: create_subprocess_exec returns the handle.
CreateProcess ==
    /\ fpc = "app"
    /\ fout.task = "create"
    /\ fout' = [fout EXCEPT !.process = "handle", !.child = "running",
                            !.task = "read", !.output = 0]
    /\ UNCHANGED <<fpc, fin, cacheVars, runVars>>

\* run_pipeline: create_subprocess_exec raises; the except and finally
\* clauses run.
CreateFails ==
    /\ fpc = "app"
    /\ fout.task = "create"
    /\ fout' = [fout EXCEPT !.process = "None", !.is_running = FALSE,
                            !.task = "idle"]
    /\ UNCHANGED <<fpc, fin, cacheVars, runVars>>

\* run_pipeline: readline returns a line of the child.
ReadLine ==
    /\ fpc = "app"
    /\ fout.task = "read"
    /\ fout.child = "running"
    /\ fout.output < MaxOutput
    /\ fout' = [fout EXCEPT !.output = @ + 1]
    /\ UNCHANGED <<fpc, fin, cacheVars, runVars>>

\* run_pipeline: readline returns the end of the output.
ReadEof ==
    /\ fpc = "app"
    /\ fout.task = "read"
    /\ fout.child \in {"closed", "exited"}
    /\ fout' = [fout EXCEPT !.task = "wait"]
    /\ UNCHANGED <<fpc, fin, cacheVars, runVars>>

\* run_pipeline: process.wait() returns, the result is logged and the
\* finally clause clears the handle.
FinishPipeline ==
    /\ fpc = "app"
    /\ fout.task = "wait"
    /\ fout.child = "exited"
    /\ fout' = [fout EXCEPT !.process = "None", !.is_running = FALSE,
                            !.task = "idle"]
    /\ UNCHANGED <<fpc, fin, cacheVars, runVars>>

\* The child closes its output: at its end, by itself or after terminate()
\* or kill().
ChildCloses ==
    /\ fpc = "app"
    /\ fout.child = "running"
    /\ fout' = [fout EXCEPT !.child = "closed"]
    /\ UNCHANGED <<fpc, fin, cacheVars, runVars>>

\* The event loop learns that the child has exited: returncode is set.
ChildExits ==
    /\ fpc = "app"
    /\ fout.child = "closed"
    /\ fout' = [fout EXCEPT !.child = "exited"]
    /\ UNCHANGED <<fpc, fin, cacheVars, runVars>>

\* on_stop_click up to its await: the stop button is enabled while
\* is_running.
StopClick ==
    /\ fpc = "app"
    /\ fout.is_running
    /\ fout.stopper = "idle"
    /\ fout.clicks < MaxClicks
    /\ fout' = IF fout.process = "None" \/ fout.child = "exited"
               THEN [fout EXCEPT !.clicks = @ + 1]
               ELSE [fout EXCEPT !.clicks = @ + 1, !.stop_requested = TRUE,
                                 !.stopper = "sleep"]
    /\ UNCHANGED <<fpc, fin, cacheVars, runVars>>

\* on_stop_click after asyncio.sleep(1.2): process.returncode is read from
\* the variable process; None has no attribute returncode.
StopWake ==
    /\ fpc = "app"
    /\ fout.stopper = "sleep"
    /\ fout' = IF fout.process = "None"
               THEN [fout EXCEPT !.stopper = "idle", !.raised = TRUE]
               ELSE IF fout.child # "exited"
               THEN [fout EXCEPT !.stopper = "idle", !.killed = TRUE]
               ELSE [fout EXCEPT !.stopper = "idle"]
    /\ UNCHANGED <<fpc, fin, cacheVars, runVars>>

AppNext ==
    \/ RunClick
    \/ CreateProcess
    \/ CreateFails
    \/ ReadLine
    \/ ReadEof
    \/ FinishPipeline
    \/ ChildCloses
    \/ ChildExits
    \/ StopClick
    \/ StopWake

SpecApp == AppInit /\ [][AppNext]_vars

(***************************************************************************)
(* Claims about the placeholder codec.                                     *)
(***************************************************************************)

\* C8: round trip: for any text t, restoring the masked text with the mapping
\* that masking produced gives back t exactly.
C8_RoundTrip ==
    fpc = "mask.restored" => fout.restored = fin

(***************************************************************************)
(* Claims about the count normalisation.                                   *)
(***************************************************************************)

\* The single-source candidate case: one source, more than one candidate,
\* and some candidate whose trimmed text differs from the trimmed source.
SingleSourceCase(result, sources) ==
    /\ Len(sources) = 1
    /\ Len(result) > 1
    /\ \E i \in 1..Len(result) : Strip(result[i]) # Strip(sources[1])

\* C9: the normalisation law: got = N gives result; N = 0 gives the empty
\* list; got = 0 gives sources; 0 < got < N gives result followed by
\* sources[got:N]; got > N outside the single-source candidate case gives
\* result[:N]; and the output always has exactly N elements.
C9_NormalizeLaw ==
    fpc = "norm.out" =>
        LET r   == fin.result
            s   == fin.sources
            N   == Len(s)
            got == Len(r)
            out == fout.out
        IN  /\ Len(out) = N
            /\ (got = N => out = r)
            /\ (N = 0 => out = <<>>)
            /\ (got = 0 => out = s)
            /\ (0 < got /\ got < N => out = r \o SubSeq(s, got + 1, N))
            /\ (got > N /\ ~SingleSourceCase(r, s) => out = SubSeq(r, 1, N))

\* C9 witness: a short result has been padded with the sources at the missing
\* positions, which differ from the leading sources.
C9_Witness ==
    /\ fpc = "norm.out"
    /\ Len(fin.result) = 1
    /\ Len(fin.sources) = 2
    /\ fin.sources[1] # fin.sources[2]
    /\ fout.out = <<fin.result[1], fin.sources[2]>>

\* C10 as stated: with one source and several candidates, if some candidate's
\* trimmed text differs from the trimmed source, the output is the list
\* holding the first such differing candidate.
C10_FirstDifferingCandidate ==
    (fpc = "norm.out" /\ SingleSourceCase(fin.result, fin.sources)) =>
        fout.out = <<fin.result[FirstDiffering(fin.result, Strip(fin.sources[1]), 1)]>>

\* C10 amended: with one source and several candidates, if some candidate's
\* trimmed text is non-empty and differs from the trimmed source, the output
\* is the list holding the first such candidate.
C10_FirstNonBlankDiffering ==
    (/\ fpc = "norm.out"
     /\ Len(fin.sources) = 1
     /\ Len(fin.result) > 1
     /\ \E i \in 1..Len(fin.result) :
            /\ Strip(fin.result[i]) # <<>>
            /\ Strip(fin.result[i]) # Strip(fin.sources[1])) =>
        LET first == CHOOSE i \in 1..Len(fin.result) :
                        /\ Strip(fin.result[i]) # <<>>
                        /\ Strip(fin.result[i]) # Strip(fin.sources[1])
                        /\ \A j \in 1..(i - 1) :
                              \/ Strip(fin.result[j]) = <<>>
                              \/ Strip(fin.result[j]) = Strip(fin.sources[1])
        IN  fout.out = <<fin.result[first]>>

\* C10 witness: a blank candidate that differs from the source precedes the
\* candidate that is returned.
C10_Witness ==
    /\ fpc = "norm.out"
    /\ fin.sources = << <<"a">> >>
    /\ fin.result = << <<" ">>, <<"x">> >>
    /\ fout.out = << <<"x">> >>

(***************************************************************************)
(* Claims about the translation cache and the provider keys.               *)
(***************************************************************************)

\* C5: after any sequence of set operations, get(providerKey, source) returns
\* a translation only if an entry was stored whose provider key and source
\* text both equal the lookup's exactly; otherwise it returns absent.
C5_GetOnlyWhatWasStored ==
    \A p \in CacheProviders, s \in CacheSources :
        LET t == CacheGet(entries, p, s)
        IN  t # None => <<p, s, t>> \in stored

\* C5 witness: after a set, the same source is a hit under the provider it
\* was stored with and absent under the other provider.
C5_Witness ==
    /\ nsets > 0
    /\ \E p \in CacheProviders, q \in CacheProviders, s \in CacheSources :
          /\ p # q
          /\ CacheGet(entries, p, s) # None
          /\ HashKey(q, s) \notin DOMAIN entries
    /\ fin # None
    /\ fout # None

\* C6: get never returns a translation that contains a synthetic placeholder
\* token: an entry whose stored translation contains one, set in this run or
\* loaded from the cache file, is reported as absent.
C6_GetNeverReturnsToken ==
    \A p \in CacheProviders, s \in CacheSources :
        LET t == CacheGet(entries, p, s)
            k == HashKey(p, s)
        IN  /\ t # None => ~HasTempPlaceholders(t)
            /\ (k \in DOMAIN entries /\ HasTempPlaceholders(entries[k].translation))
                  => t = None

\* C6 witness: a translation holding a token was set in this run under the
\* looked-up provider and source, and the lookup reported it absent.
C6_Witness ==
    /\ nsets > 0
    /\ fin # None
    /\ LET k == HashKey(fin[1], fin[2])
       IN  /\ k \in DOMAIN entries
           /\ entries[k].provider = fin[1]
           /\ entries[k].source = fin[2]
           /\ <<fin[1], fin[2], entries[k].translation>> \in stored
           /\ HasTempPlaceholders(entries[k].translation)
    /\ fout = None

\* The components of a configuration that its provider key is built from:
\* backend kind, endpoint, model or source language, target language.
Components(c) ==
    <<c.kind, Endpoint(c), IF c.kind = "openai" THEN c.model ELSE c.source_lang,
      c.target>>

\* C7: two translator configurations that differ in any component have
\* different provider keys, so a translation cached under one is a miss under
\* the other even for identical source text.
C7_DistinctConfigsDistinctKeys ==
    (fpc = "key.out" /\ Components(fin.a) # Components(fin.b)) =>
        /\ fout.ka # fout.kb
        /\ fout.got = None


(***************************************************************************)
(* The end-to-end scenario: one file, a comment line holding the source    *)
(* above a say line holding the same text, and a backend that answers      *)
(* every request with the one-element array [T].                           *)
(***************************************************************************)

E2ESource == SrcA

E2EFile == <<CommentLine(E2ESource), SayLine(E2ESource)>>

\* The answers T of the scenario, all different from the source.
E2EReplies ==
    { <<"x">>, <<"y">>, <<"x", "y">>, <<" ">>, <<>>, <<"x", " ">>, <<" ", "x">>,
      <<"x", "\"", "y">>, <<"x", "\\", "y">>, <<"x", "\n", "y">>,
      Token(0), Token(0) \o <<"x">>, <<"x">> \o Token(1),
      <<"[", "n", "]">>, <<"A">>, <<"b">> }

E2EInit ==
    RunInitWith({<<E2EFile>>},
                {[mode |-> "fixed", reply |-> t] : t \in E2EReplies},
                {PosixLineSep})

E2ENext ==
    \/ OpenFile
    \/ BatchOk
    \/ Record
    \/ ApplyOk
    \/ FileEnd
    \/ StartRun2

SpecE2E == E2EInit /\ [][E2ENext]_vars

(***************************************************************************)
(* Claims about runs.                                                      *)
(***************************************************************************)

\* The say line of the scenario, rewritten with the text t.
E2ERewritten(t) == SayLine(t)

\* apply_translations_to_file has returned for the file of the scenario.
E2EReturned == pc = "fileEnd" /\ fi = 1

\* T is what the file can hold verbatim: not empty, no white space at its
\* ends, no backslash, double quote or line break, no placeholder token.
PlainAnswer(t) ==
    /\ t # <<>>
    /\ Strip(t) = t
    /\ \A i \in 1..Len(t) : t[i] \notin {"\\", "\"", "\n", "\r"}
    /\ ~HasTempPlaceholders(t)

\* C2 (as stated): in the scenario the first run rewrites exactly the say
\* line to prefix + "T" + suffix and counts it translated, and the second
\* run writes nothing.
C2_EndToEnd ==
    /\ (E2EReturned /\ run = 1) =>
          /\ files[1] = <<E2EFile[1], E2ERewritten(backend.reply)>>
          /\ stats.translated = 1
    /\ (E2EReturned /\ run = 2) => (~stats.changed /\ stats.translated = 0)

\* C2 (amended): the same, for an answer T that is not empty, has no white
\* space at its ends and holds no backslash, double quote, line break or
\* placeholder token.
C2_EndToEndPlainAnswer ==
    PlainAnswer(backend.reply) =>
       /\ (E2EReturned /\ run = 1) =>
             /\ files[1] = <<E2EFile[1], E2ERewritten(backend.reply)>>
             /\ stats.translated = 1
             /\ stats.skipped = 0 /\ stats.deferred = 0
       /\ (E2EReturned /\ run = 2) =>
             /\ ~stats.changed
             /\ stats.translated = 0
             /\ files[1] = <<E2EFile[1], E2ERewritten(backend.reply)>>

\* The second run of the scenario has returned after a first run that
\* rewrote the say line with a plain answer.
C2_Witness ==
    /\ E2EReturned
    /\ run = 2
    /\ PlainAnswer(backend.reply)
    /\ files[1][2] = E2ERewritten(backend.reply)
    /\ files[1][2] # E2EFile[2]

\* C1: a run in resume mode over a file that the previous run translated in
\* full (no job deferred, cut off or stopped by quota), with the cache file
\* that run left, rewrites no line and does not write the file.
C1_Idempotence ==
    (run = 2 /\ ~cfg.overwrite /\ pc = "fileEnd" /\ fi \in full1) =>
        (stats.translated = 0 /\ ~stats.changed)

\* C3: once a call of translate_batch raised QuotaExceededError,
\* the run issues no further request.
C3_NoRequestAfterQuota ==
    [][(quotaSeen /\ run' = run) => nreq' = nreq]_vars

\* C4: when QuotaExceededError was raised in a file, every translation
\* resolved by the batches of that file is in the result map returned with
\* the quota flag and in the saved cache, and once the file function has
\* returned every job line of such a source holds the translation on disk.
C4_QuotaKeepsProgress ==
    (quota_hit /\ pc \in {"apply", "fileEnd"}) =>
        /\ \A s \in DOMAIN resolved :
              /\ s \in DOMAIN results
              /\ results[s] = resolved[s]
              /\ HashKey(ProviderKey(cfg.provider), s) \in DOMAIN diskCache
              /\ diskCache[HashKey(ProviderKey(cfg.provider), s)].translation
                    = resolved[s]
        /\ pc = "fileEnd" =>
              /\ stats.quota_exceeded
              /\ \A k \in 1..Len(jobs) :
                    jobs[k].source_text \in DOMAIN resolved =>
                       files[fi][jobs[k].line_index] =
                          NewLine(files[fi][jobs[k].line_index], jobs[k],
                                  resolved[jobs[k].source_text])

\* Quota was hit in a later batch of a file, after an earlier batch resolved
\* a translation that changed a line.
C4_Witness ==
    /\ quota_hit
    /\ pc = "fileEnd"
    /\ bi > 1
    /\ DOMAIN resolved # {}
    /\ stats.translated > 0

(***************************************************************************)
(* Claims about the response parser.                                       *)
(***************************************************************************)

\* C11: the parser returns the intended list for the clean array, the array
\* in a fenced block, the array followed by prose and the array without its
\* closing bracket.
C11_ParserRobustness ==
    (fpc = "parse.out" /\ fin.form \in ArrayForms) => fout = SomeList(fin.intent)

\* C12: the parser signals a failure, and returns no list, for a response
\* without array-like content.
C12_NoArrayFails ==
    (fpc = "parse.out" /\ fin.form = "none") => ~fout.found

(***************************************************************************)
(* Claims about the line job extractor.                                    *)
(***************************************************************************)

\* The loop has just done a line of one of the given kinds.
ScannedKind(kinds) ==
    /\ fpc = "scan"
    /\ fout'.i = fout.i + 1
    /\ fin.lines[fout'.i].kind \in kinds

\* The step appended a job for the line it did.
ClosedJobKept ==
    /\ Len(fout'.jobs) = Len(fout.jobs) + 1
    /\ SubSeq(fout'.jobs, 1, Len(fout.jobs)) = fout.jobs
    /\ fout'.jobs[Len(fout'.jobs)].line_index = fout'.i

\* The source of the job the line closes: the slot of its kind, else its text.
ClosedSource ==
    LET line == fin.lines[fout'.i]
        slot == IF line.kind = "new" THEN fout.pending_old ELSE fout.pending_comment
    IN  IF slot # None THEN slot ELSE line.text

\* C13: a closed job is in the extractor's output if and only if overwrite
\* was requested, or its current text equals its source text, or its current
\* text holds a leftover synthetic token.
C13_ResumabilityFilter ==
    [][ScannedKind({"new", "say"}) =>
          LET current == fin.lines[fout'.i].text
          IN  /\ ClosedJobKept \/ fout'.jobs = fout.jobs
              /\ ClosedJobKept <=>
                    \/ fin.overwrite
                    \/ current = ClosedSource
                    \/ HasTempPlaceholders(current)]_vars

\* In resume mode a translated line was left out, and a line with a
\* leftover token and an untranslated line were taken.
C13_Witness ==
    /\ fpc = "scan"
    /\ ~fin.overwrite
    /\ fout.i = 3
    /\ Len(fout.jobs) = 1
    /\ fin.lines[1].kind = "old"
    /\ fin.lines[2] = NewLineOf(<<"x">>)
    /\ fin.lines[3] = NewLineOf(Token(0))

\* C14: a new line closes a job whose source is pending_old if set, else the
\* line's text; a say line closes a job whose source is pending_comment if
\* set, else its text; after either both pending slots are empty, whether or
\* not the job was included.
C14_ClosingLines ==
    [][ScannedKind({"new", "say"}) =>
          /\ fout'.pending_old = None
          /\ fout'.pending_comment = None
          /\ ClosedJobKept =>
                /\ fout'.jobs[Len(fout'.jobs)].source_text = ClosedSource
                /\ fout'.jobs[Len(fout'.jobs)].current_text = fin.lines[fout'.i].text]_vars

\* A new line after an old line closed a job that was not included, and the
\* slots are empty.
C14_Witness ==
    /\ fpc = "scan"
    /\ fout.i = 2
    /\ fin.lines[1].kind = "old"
    /\ fin.lines[2] = NewLineOf(<<"x">>)
    /\ ~fin.overwrite
    /\ fout.jobs = <<>>
    /\ fout.pending_old = None
    /\ fout.pending_comment = None

\* C15: a comment line clears pending_old and an old line clears
\* pending_comment, so the two pending slots are never both set.
C15_SlotsNeverBothSet ==
    fpc = "scan" => (fout.pending_old = None \/ fout.pending_comment = None)

\* C16: a line that is not blank, not a comment and of none of the four
\* forms clears both pending slots, so the closing line after it takes its
\* own text as the source; blank lines and other comment lines leave both
\* slots as they are.
C16_OtherLinesClear ==
    /\ [][ScannedKind({"other"}) =>
             (fout'.pending_old = None /\ fout'.pending_comment = None)]_vars
    /\ [][(ScannedKind({"new", "say"}) /\ fout.i >= 1
              /\ fin.lines[fout.i].kind = "other" /\ ClosedJobKept)
             => fout'.jobs[Len(fout'.jobs)].source_text = fin.lines[fout'.i].text]_vars
    /\ [][ScannedKind({"skip", "hash"}) =>
             /\ fout'.pending_old = fout.pending_old
             /\ fout'.pending_comment = fout.pending_comment
             /\ fout'.jobs = fout.jobs]_vars

\* A source was pending, an unrelated line came, and the closing line after
\* it took its own text.
C16_Witness ==
    /\ fpc = "scan"
    /\ fout.i = 3
    /\ fin.lines[1].kind = "old"
    /\ fin.lines[2].kind = "other"
    /\ fin.lines[3] = NewLineOf(<<"x">>)
    /\ Len(fout.jobs) = 1
    /\ fout.jobs[1].source_text = <<"x">>

(***************************************************************************)
(* Claims about the form-POST call.                                        *)
(***************************************************************************)

C18_SavedBeforeNextRequest ==
    (pc \in {"batch", "fallback"} /\ run = 1) =>
        \A e \in stored :
            /\ HashKey(e[1], e[2]) \in DOMAIN diskCache
            /\ diskCache[HashKey(e[1], e[2])] =
                  [provider |-> e[1], source |-> e[2], translation |-> e[3]]

\* The request of the second batch of a file is about to be issued, after
\* the first batch resolved a translation.
C18_Witness ==
    /\ pc = "batch"
    /\ run = 1
    /\ bi > 1
    /\ stored # {}

\* C19: after a kill at any point of a run, also inside save(), the cache
\* loaded by the next run yields every translation resolved in the batches
\* before the one in flight.
C19_CrashLosesOneBatch ==
    (run = 2 /\ pc = "main" /\ fi = 1) =>
        \A e \in stored : CacheGet(entries, e[1], e[2]) = e[3]

\* The line without its ending.
LineText(line) == [kind |-> line.kind, prefix |-> line.prefix,
                   text |-> line.text, suffix |-> line.suffix]

C21_OnlyDifferingLinesRewritten ==
    [][(pc = "apply" /\ pc' = "fileEnd") =>
          LET present == {k \in 1..Len(jobs) :
                             jobs[k].source_text \in DOMAIN results}
              rebuilt(k) == NewLine(lines[jobs[k].line_index], jobs[k],
                                    results[jobs[k].source_text])
              same == {k \in present : rebuilt(k) = lines[jobs[k].line_index]}
              jobLines == {jobs[k].line_index : k \in 1..Len(jobs)}
          IN  /\ \A k \in present \ same :
                    lines'[jobs[k].line_index] = rebuilt(k)
              /\ \A k \in same :
                    lines'[jobs[k].line_index] = lines[jobs[k].line_index]
              /\ stats'.skipped = Cardinality(same)
              /\ stats'.translated = Cardinality(present \ same)
              /\ Len(files'[fi]) = Len(files[fi])
              /\ \A i \in 1..Len(files[fi]) :
                    /\ files'[fi][i].ending = files[fi][i].ending
                    /\ i \notin jobLines => files'[fi][i] = files[fi][i]
              /\ files' # files => present # same]_vars

C23_WarnedOncePerCategory ==
    fpc = "chat" =>
        \A k \in WarnKeys :
            /\ fout.shown[k] <= 1
            /\ fout.shown[k] = 1 <=> fout.occurred[k] >= 1

\* The condition of one category occurred in two calls, and the condition
\* of another category as well.
C23_Witness ==
    /\ fpc = "chat"
    /\ \E k \in WarnKeys \ {"openai_timeout_boost"} :
          fout.occurred[k] = 2 /\ fout.shown[k] = 1
    /\ fout.occurred["openai_timeout_boost"] = 2

\* The positions of the events of a call that are of kind ev.
EventsOf(ev) == {i \in 1..Len(fout.log) : fout.log[i].ev = ev}

\* The positions of the failures whose message indicates a timeout.
TimeoutsOf == {i \in 1..Len(fout.log) : fout.log[i].timeout}

\* C24: in a call of the chat translate_batch the boosted request is sent
\* once, directly after the first failure whose message indicates a timeout,
\* with no sleep in between; no later timeout of the call is followed by
\* another boosted request, and without a timeout there is none.
C24_BoostedOnce ==
    fpc = "chat" =>
        /\ Cardinality(EventsOf("boosted")) <= 1
        /\ TimeoutsOf = {} => EventsOf("boosted") = {}
        /\ TimeoutsOf # {} =>
              LET f == CHOOSE i \in TimeoutsOf : \A j \in TimeoutsOf : i <= j
              IN  /\ fout.log[f].ev = "request"
                  /\ EventsOf("boosted") = {f + 1}
        /\ fout.timeout_boost_used <=> EventsOf("boosted") # {}

\* A call in which the first request timed out, the boosted request failed,
\* and after the sleep the next standard request timed out again.
C24_Witness ==
    /\ fpc = "chat"
    /\ Len(fout.log) >= 5
    /\ fout.log[1].ev = "request" /\ fout.log[1].timeout
    /\ fout.log[2].ev = "boosted"
    /\ fout.log[3].ev = "sleep"
    /\ fout.log[4].ev = "request" /\ fout.log[4].timeout
    /\ fout.log[5].ev = "sleep"

\* min(2**attempt, 8)
BackoffSeconds(attempt) == IF 2 ^ attempt < 8 THEN 2 ^ attempt ELSE 8

\* The seconds slept in the first k sleeps of a call.
RECURSIVE SleptIn(_)
SleptIn(k) == IF k = 0 THEN 0 ELSE SleptIn(k - 1) + BackoffSeconds(k)

\* The chat call: at most retries standard requests and one boosted request;
\* every sleep follows a failed attempt that is not the last one and lasts
\* min(2^attempt, 8); the error raised at the end carries the last failure.
ChatCallBounded ==
    LET requests == EventsOf("request")
        Before(i) == Cardinality({j \in requests : j < i})
        failures == {i \in 1..Len(fout.log) : fout.log[i].message # None}
    IN  /\ Cardinality(requests) <= fin.retries
        /\ Cardinality(EventsOf("boosted")) <= 1
        /\ \A i \in EventsOf("sleep") :
              /\ i > 1
              /\ fout.log[i - 1].ev \in {"request", "boosted"}
              /\ fout.log[i - 1].message # None
              /\ Before(i) < fin.retries
              /\ fout.log[i].secs = BackoffSeconds(Before(i))
        /\ \A i \in requests : i > 1 => fout.log[i - 1].ev = "sleep"
        /\ fout.status = "RuntimeError" =>
              /\ Cardinality(requests) = fin.retries
              /\ fout.log # <<>> => fout.log[Len(fout.log)].ev # "sleep"
              /\ fout.last_err =
                    IF failures = {} THEN None
                    ELSE fout.log[CHOOSE i \in failures :
                                     \A j \in failures : j <= i].message

\* The form-POST call: at most retries requests; one sleep of
\* min(2^attempt, 8) after every failed attempt but the last one and the one
\* that raised QuotaExceededError; the error raised at the end carries a
\* failure.
DeeplCallBounded ==
    LET retried == IF fout.status \in {"returned", "QuotaExceededError"}
                   THEN fout.requests - 1 ELSE fout.requests
        between == IF fin.retries = 0 THEN 0
                   ELSE IF retried < fin.retries - 1 THEN retried
                   ELSE fin.retries - 1
    IN  /\ fout.requests <= fin.retries
        /\ fout.sleeps = between
        /\ fout.slept = SleptIn(between)
        /\ fout.status = "RuntimeError" =>
              /\ fout.requests = fin.retries
              /\ fin.retries > 0 => fout.last_err # None

\* C25: translate_batch of either variant terminates; it sends at most
\* retries standard requests (and one boosted request in the chat variant),
\* sleeps min(2^attempt, 8) seconds between attempts only, never after the
\* last, and raises an error that carries the last failure once the attempts
\* are used up.
C25_BoundedRetries ==
    /\ [](fpc = "chat" => ChatCallBounded)
    /\ [](fpc = "deepl" => DeeplCallBounded)
    /\ (fout.status = "running") ~> (fout.status # "running")

\* A chat call that used up three attempts, the boosted request included,
\* and raised.
C25_Witness ==
    /\ fpc = "chat"
    /\ fin.retries = 3
    /\ fout.status = "RuntimeError"
    /\ Cardinality(EventsOf("request")) = 3
    /\ Cardinality(EventsOf("boosted")) = 1
    /\ Cardinality(EventsOf("sleep")) = 2

\* C26: a list translate_batch returns has as many items as the texts it
\* was called with: the chat variant returns the normalised array, the
\* form-POST variant returns only a response with as many translations and
\* takes any other count as a failed attempt.
C26_ReturnedCountMatches ==
    /\ (fpc = "chat" /\ fout.status = "returned") =>
          Len(fout.out) = Len(fin.texts)
    /\ (fpc = "deepl" /\ fout.status = "returned") => fout.returned = fin.n
    /\ (fpc = "deepl" /\ fout.status # "returned") => fout.returned = 0

\* The chat call returned two items for two texts after the model had
\* answered fewer.
C26_Witness ==
    /\ fpc = "chat"
    /\ fout.status = "returned"
    /\ Len(fin.texts) = 2
    /\ fout.occurred["count_mismatch_missing"] = 1
    /\ fout.calls = 1

(***************************************************************************)
(* Claims about translate_unique_texts.                                    *)
(***************************************************************************)

\* The single requests of a failed batch: a batch call that does not return
\* and does not raise QuotaExceededError is followed by one single request
\* per text, in batch order, which ends early only on QuotaExceededError; a
\* single request touches only the item of its own text; and the batch is
\* recorded with exactly the texts whose item was set.
FallbackPerText ==
    /\ [][(pc = "batch" /\ pc' # "batch") =>
             \/ pc' = "record" /\ \A k \in 1..Len(batches[bi]) : tm'[k] # None
             \/ pc' = "apply" /\ quota_hit'
             \/ /\ pc' = "fallback"
                /\ fbi' = 1
                /\ \A k \in 1..Len(batches[bi]) : tm'[k] = None]_vars
    /\ [][(pc = "fallback" /\ <<pc, fbi, tm, nreq, quota_hit>>' # <<pc, fbi, tm, nreq, quota_hit>>) =>
             /\ nreq' = nreq + 1
             /\ fbi <= Len(batches[bi])
             /\ \A k \in 1..Len(batches[bi]) : k # fbi => tm'[k] = tm[k]
             /\ \A k \in fbi..Len(batches[bi]) : tm[k] = None
             /\ \/ quota_hit' /\ pc' = "record" /\ tm' = tm
                \/ /\ ~quota_hit'
                   /\ fbi' = fbi + 1
                   /\ pc' = IF fbi = Len(batches[bi]) THEN "record"
                            ELSE "fallback"]_vars
    /\ [][pc = "record" =>
             \A k \in 1..Len(batches[bi]) :
                batches[bi][k] \in DOMAIN results' <=> tm[k] # None]_vars

\* C27 (as stated): the single requests of a failed batch as above, and a
\* text whose single request failed stays unresolved for the run: absent
\* from the cache when a later file is processed, it does not enter the
\* result map of that file either.
C27_UnresolvedForTheRun ==
    /\ FallbackPerText
    /\ [][(/\ fi = 2
           /\ fi' = 2
           /\ ~quotaSeen
           /\ CacheGet(entries, ProviderKey(cfg.provider), SrcA) = None
           /\ SrcA \notin DOMAIN results)
          => SrcA \notin DOMAIN results']_vars

\* C27 (amended): the single requests of a failed batch as above, and a
\* text whose single request failed stays unresolved until the file is
\* written: the result map does not change once the batches are recorded.
C27_UnresolvedForTheFile ==
    /\ FallbackPerText
    /\ [][pc = "apply" => results' = results]_vars

\* A batch of two texts failed, the single request of the first text failed
\* and that of the second succeeded: the second text is resolved, the first
\* is not.
C27_Witness ==
    /\ pc = "apply"
    /\ fi = 1
    /\ ~quota_hit
    /\ Len(batches) = 1
    /\ Len(batches[1]) = 2
    /\ batches[1][1] \notin DOMAIN results
    /\ batches[1][2] \in DOMAIN results

\* A value that may be stored for source text s: s itself, or a non-empty
\* trimmed text without a synthetic placeholder token.
StorableFor(s, v) ==
    \/ v = s
    \/ v # <<>> /\ Strip(v) = v /\ ~HasTempPlaceholders(v)

\* C28: every value of the result map and of the cache (the entries in
\* memory, the cache file, everything ever passed to cache.set) is the source
\* text itself or a non-empty trimmed text without a synthetic token; and
\* when a batch is recorded, an answer that is empty after restoring and
\* trimming, or still holds a token, is stored as the source text, any other
\* as the restored and trimmed answer.
C28_StoredValues ==
    /\ [](/\ \A s \in DOMAIN results : StorableFor(s, results[s])
          /\ \A k \in DOMAIN entries :
                StorableFor(entries[k].source, entries[k].translation)
          /\ \A k \in DOMAIN diskCache :
                StorableFor(diskCache[k].source, diskCache[k].translation)
          /\ \A e \in stored : StorableFor(e[2], e[3]))
    /\ [][pc = "record" =>
             \A k \in 1..Len(tm) :
                tm[k] # None =>
                   LET s == batches[bi][k]
                       restored ==
                          Strip(RestorePlaceholders(
                                   tm[k], MaskPlaceholders(s).mapping))
                       value ==
                          IF restored = <<>> \/ HasTempPlaceholders(restored)
                          THEN s ELSE restored
                   IN  /\ results'[s] = value
                       /\ CacheGet(entries', ProviderKey(cfg.provider), s)
                             = value]_vars

\* The answers of the backend never equal a source text: of two texts the
\* backend resolved for a file, one was replaced by its source text and the
\* other is stored as answered.
C28_Witness ==
    /\ pc = "apply"
    /\ \E s, t \in DOMAIN resolved :
          /\ results[s] = s
          /\ results[t] # t
          /\ <<ProviderKey(cfg.provider), s, s>> \in stored

\* C29: a text is recorded from the item at its own position of the batch
\* and with its own placeholder mapping, and recording a batch leaves the
\* texts of the other batches as they were; when the jobs are applied, the
\* line of every job whose source text is resolved becomes prefix + the
\* escaped translation of that source text + suffix, in the list of lines
\* and in the file, for every batch size; two jobs of the file with the same
\* source text hold the same text afterwards.
C29_OwnTranslationPerJob ==
    /\ [][pc = "record" =>
             /\ \A k \in 1..Len(tm) :
                   tm[k] # None =>
                      results'[batches[bi][k]] =
                         ResolveItem(batches[bi][k], tm[k],
                                     MaskPlaceholders(batches[bi][k]).mapping)
             /\ \A s \in DOMAIN results :
                   (\A k \in 1..Len(tm) : batches[bi][k] # s) =>
                      s \in DOMAIN results' /\ results'[s] = results[s]]_vars
    /\ [][(pc = "apply" /\ pc' = "fileEnd") =>
             /\ \A k \in 1..Len(jobs) :
                   jobs[k].source_text \in DOMAIN results =>
                      /\ lines'[jobs[k].line_index] =
                            NewLine(lines[jobs[k].line_index], jobs[k],
                                    results[jobs[k].source_text])
                      /\ LineText(files'[fi][jobs[k].line_index]) =
                            LineText(NewLine(lines[jobs[k].line_index], jobs[k],
                                             results[jobs[k].source_text]))
             /\ \A j, k \in 1..Len(jobs) :
                   (/\ jobs[j].source_text = jobs[k].source_text
                    /\ jobs[j].source_text \in DOMAIN results) =>
                      lines'[jobs[j].line_index].text =
                         lines'[jobs[k].line_index].text]_vars

\* A file of three jobs, two of them of the same text, resolved by two
\* batches of one text with different translations: the two lines of the
\* shared text hold its translation, the third line holds the other one.
C29_Witness ==
    /\ pc = "fileEnd"
    /\ fi = 1
    /\ Len(jobs) = 3
    /\ Len(batches) = 2
    /\ stats.translated = 3
    /\ DOMAIN resolved = {SrcA, SrcB}
    /\ resolved[SrcA] # resolved[SrcB]
    /\ \A k \in 1..3 :
          lines[jobs[k].line_index].text =
             EscapeRenpyString(resolved[jobs[k].source_text])

\* The texts of a list of batches, one after the other.
RECURSIVE Flatten(_)
Flatten(bs) == IF bs = <<>> THEN <<>> ELSE Head(bs) \o Flatten(Tail(bs))

\* The unique source texts of the jobs.
UniqueSources == {jobs[k].source_text : k \in 1..Len(jobs)}

\* C30: when the file function has looked the unique source texts of the
\* jobs up in the cache, a text with a valid cache entry is in the result
\* map and in no batch, and the batches, one after the other, are the texts
\* without a valid entry in sorted order, every one exactly once, in batches
\* of 1..batch_size texts of which only the last may be shorter; and the
\* backend is only ever called with a batch or with one text of a batch.
C30_MissesBatchedOnce ==
    /\ [][(pc = "main" /\ pc' \in {"batch", "apply"}) =>
             LET key  == ProviderKey(cfg.provider)
                 hit  == {t \in UniqueSources' : CacheGet(entries, key, t) # None}
                 miss == UniqueSources' \ hit
                 flat == Flatten(batches')
             IN  /\ \A t \in hit :
                       /\ t \in DOMAIN results'
                       /\ \A b \in 1..Len(batches') :
                             \A k \in 1..Len(batches'[b]) : batches'[b][k] # t
                 /\ flat = SortTexts(miss)
                 /\ \A t \in miss :
                       Cardinality({<<b, k>> \in (1..Len(batches')) \X (1..cfg.batch_size) :
                                       k <= Len(batches'[b]) /\ batches'[b][k] = t}) = 1
                 /\ \A b \in 1..Len(batches') :
                       /\ Len(batches'[b]) \in 1..cfg.batch_size
                       /\ b < Len(batches') => Len(batches'[b]) = cfg.batch_size]_vars
    /\ [][nreq' # nreq =>
             /\ pc \in {"batch", "fallback"}
             /\ bi \in 1..Len(batches)
             /\ pc = "fallback" => fbi \in 1..Len(batches[bi])
             /\ batches' = batches]_vars

\* The third file is opened with the first text in the cache and the second
\* not: the one batch holds the second text alone.
C30_Witness ==
    /\ fi = 3
    /\ pc = "batch"
    /\ SrcA \in DOMAIN results
    /\ batches = << <<SrcB>> >>

\* The third file is opened with neither text in the cache and batch size 1:
\* the batches follow the sorted order, not the order of the lines.
C30_WitnessSorted ==
    /\ fi = 3
    /\ pc = "batch"
    /\ jobs[1].source_text = SrcB
    /\ batches = << <<SrcA>>, <<SrcB>> >>

(***************************************************************************)
(* Further claims about the response parser.                               *)
(***************************************************************************)

\* C31: for a response that holds a string array in a fenced code block and
\* another decodable array in the prose around it, extract_first_json_array
\* returns the array of the fenced block.
C31_FencedBlockBeforeScan ==
    (fpc = "parse.out" /\ fin.form \in {"fence.first", "fence.last"}) =>
        fout = SomeList(fin.intent)

(***************************************************************************)
(* Claims about the timeouts of the chat variant.                          *)
(***************************************************************************)

\* C32 (as stated): for every base timeout and batch the adaptive timeout is
\* max(base, min(base + floor(longest length / 30), 4 * base)) and lies
\* between base and 4 * base.
C32_AdaptiveOfBase ==
    fpc \in {"timeout.adaptive", "timeout.boosted"} =>
        /\ fout.adaptive =
              MaxOf(fin.timeout,
                    MinOf(fin.timeout + (MaxChars(fin.texts) \div 30),
                          4 * fin.timeout))
        /\ fin.timeout <= fout.adaptive
        /\ fout.adaptive <= 4 * fin.timeout

\* C32 (amended): the same with base taken as 1 when it is below 1.
C32_AdaptiveOfSafeBase ==
    fpc \in {"timeout.adaptive", "timeout.boosted"} =>
        LET base == IF fin.timeout < 1 THEN 1 ELSE fin.timeout
        IN  /\ fout.adaptive =
                  MaxOf(base, MinOf(base + (MaxChars(fin.texts) \div 30),
                                    4 * base))
            /\ base <= fout.adaptive
            /\ fout.adaptive <= 4 * base

\* A batch whose longest text pushes base + length / 30 beyond 4 * base: the
\* adaptive timeout is 4 * base.
C32_Witness ==
    /\ fpc = "timeout.adaptive"
    /\ fin.timeout = 2
    /\ fin.timeout + (MaxChars(fin.texts) \div 30) > 4 * fin.timeout
    /\ fout.adaptive = 8

\* C33: the boosted timeout is at least 8 * the base timeout and at most
\* twice the adaptive timeout.
C33_BoostedAtLeastEightBase ==
    fpc = "timeout.boosted" =>
        /\ fout.boosted >= 8 * fin.timeout
        /\ fout.boosted <= 2 * fout.adaptive

(***************************************************************************)
(* Further claims about the cache.                                         *)
(***************************************************************************)

\* C34: a step that changes the entry map is a set for some (provider key,
\* source): it removes no entry, it leaves every entry under another hash
\* as it was, the entry under the hash of (provider key, source) holds that
\* provider key and that source afterwards, and get gives for every other
\* (provider key, source) what it gave before.
C34_OnlySetChangesOneEntry ==
    [][entries' # entries =>
          \E p \in CacheProviders, s \in CacheSources :
             /\ DOMAIN entries' = DOMAIN entries \cup {HashKey(p, s)}
             /\ \A k \in DOMAIN entries \ {HashKey(p, s)} :
                   entries'[k] = entries[k]
             /\ entries'[HashKey(p, s)].provider = p
             /\ entries'[HashKey(p, s)].source = s
             /\ \A q \in CacheProviders, u \in CacheSources :
                   <<q, u>> # <<p, s>> =>
                      CacheGet(entries', q, u) = CacheGet(entries, q, u)]_vars

\* An entry was replaced by a later set while another entry is in the map.
C34_Witness ==
    /\ fpc = "cache"
    /\ nsets >= 2
    /\ Cardinality(DOMAIN entries) >= 2
    /\ \E e \in stored :
          /\ ~HasTempPlaceholders(e[3])
          /\ CacheGet(entries, e[1], e[2]) \notin {None, e[3]}
    /\ \E e \in stored : CacheGet(entries, e[1], e[2]) = e[3]

(***************************************************************************)
(* Further claims about apply_translations_to_file.                        *)
(***************************************************************************)

\* C35: when the jobs are applied, a job whose resolved translation equals
\* its current quoted text leaves its line as it was, in the list of lines
\* and in the file, and is counted skipped, whatever the text holds.
C35_SameTextSkipped ==
    [][(pc = "apply" /\ pc' = "fileEnd") =>
          LET same == {k \in 1..Len(jobs) :
                          /\ jobs[k].source_text \in DOMAIN results
                          /\ results[jobs[k].source_text] = jobs[k].current_text}
          IN  /\ \A k \in same :
                    /\ lines'[jobs[k].line_index] = lines[jobs[k].line_index]
                    /\ files'[fi][jobs[k].line_index] =
                          files[fi][jobs[k].line_index]
              /\ stats'.skipped >= Cardinality(same)]_vars

(***************************************************************************)
(* Claims about short answers of the chat variant.                         *)
(***************************************************************************)

\* The positions of the batch whose item is the masked text that was sent:
\* what normalize_translation_count puts at the positions the parsed array
\* does not reach (no answer of the backend equals a masked text).
PaddedPositions ==
    {k \in 1..Len(tm) : tm[k] = MaskedBatch(batches[bi])[k]}

\* The texts recorded under the provider key of the run.
StoredTexts == {e[2] : e \in {d \in stored : d[1] = ProviderKey(cfg.provider)}}

TrimmedSource(s) ==
    IF Strip(s) = <<>> \/ HasTempPlaceholders(Strip(s)) THEN s ELSE Strip(s)

C37_WitnessFallback ==
    /\ pc = "fallback"
    /\ cfg.provider.kind = "openai"
    /\ fbi = 2

(***************************************************************************)
(* Claims about the desktop front-end.                                     *)
(***************************************************************************)

\* C38: when the stop handler resumes after its wait, the variable process
\* still holds the handle: run_pipeline has not cleared it.
C38_StopReadsSetHandle ==
    [][(fpc = "app" /\ fout.stopper = "sleep" /\ fout'.stopper = "idle") =>
          fout.process # "None"]_vars

====
